---- MODULE Spec2Model ----
(***************************************************************************)
(* State-machine model of the wellness tracker backend: the four resource  *)
(* stores (goals, mood entries, journal entries, meditation runs) behind   *)
(* their REST controllers, and the AI summarization adapter                *)
(* (deepseek.service) with its two callers (journal summarize, dashboard   *)
(* analyze).                                                               *)
(*                                                                         *)
(* Conventions for JavaScript values:                                      *)
(*   - a request-body scalar is a string; UNDEF stands for an absent key,  *)
(*     NULL for JSON null, "true"/"false" for the booleans;                *)
(*   - a request-body number is a tagged record (Num, Str, Undef) so that  *)
(*     parseInt(x) || d can be computed as the code computes it;           *)
(*   - a SQL NULL column is NULL.                                          *)
(***************************************************************************)
EXTENDS Integers, Sequences, FiniteSets, TLC

VARIABLES goals, goalSeq, moods, journal, runs, resp, env, call, sessions, users, reg,
          pending, client, page

vars ==
  <<goals, goalSeq, moods, journal, runs, resp, env, call, sessions, users, reg, pending,
    client, page>>

\* The accounts and the registrations in progress.
authVars == <<users, reg>>

\* The state of the browser: the auth context and the meditation page.
uiVars == <<client, page>>

storeVars == <<goals, goalSeq, moods, journal, runs, sessions, authVars, pending, uiVars>>

aiVars == <<env, call>>

\* What a handler of one store leaves alone.
notGoals == <<moods, journal, runs, sessions, authVars, pending, uiVars, env, call>>

notMoods == <<goals, goalSeq, journal, runs, sessions, authVars, pending, uiVars, env, call>>

notJournal == <<goals, goalSeq, moods, runs, sessions, authVars, pending, uiVars, env, call>>

notRuns == <<goals, goalSeq, moods, journal, sessions, authVars, pending, uiVars, env, call>>

NULL == "NULL"

UNDEF == "UNDEF"

Users == {1, 2}

\* Rows stored across the four tables at any one time.
MaxRows == 2

\* Highest AUTO_INCREMENT id the goals table hands out.
MaxGoalId == 2

\* JavaScript truthiness of a request-body scalar.
Truthy(v) == v \notin {UNDEF, NULL, "false", ""}

Undef == [t |-> "undef"]

Num(n) == [t |-> "num", n |-> n]

Str(s) == [t |-> "str", s |-> s]

\* parseInt(v) || d : NaN (absent, non-numeric) and 0 are falsy and give d.
ParseIntOr(v, d) == IF v.t = "num" /\ v.n # 0 THEN v.n ELSE d

\* !v for a request-body number.
NumFalsy(v) == v.t = "undef" \/ (v.t = "num" /\ v.n = 0) \/ (v.t = "str" /\ v.s = "")

RowCount == Cardinality(DOMAIN goals) + Cardinality(DOMAIN moods)
            + Cardinality(DOMAIN journal) + Cardinality(DOMAIN runs)

NoBody == [kind |-> "none"]

\* res.status(500).json({ message: err.message || 'Server error' })
ErrorBody(message) == [kind |-> "error", message |-> message]

\* RangeError thrown by Date.prototype.toISOString on an invalid date.
InvalidTime == "Invalid time value"

\* Errors raised by the database driver.
DuplicateKey == "Duplicate entry for key PRIMARY"

EnumError == "Data truncated for column"

Response(op, store, user, id, status, body) ==
  [op |-> op, store |-> store, user |-> user, id |-> id, status |-> status, body |-> body]

\* Remove key k from the function (table) f.
Without(f, k) == [x \in DOMAIN f \ {k} |-> f[x]]

(***************************************************************************)
(* Dates.  An ISO instant is a pair (second, millisecond); a MySQL         *)
(* DATETIME keeps the second only.                                         *)
(***************************************************************************)
InvalidDate == "invalid-date"

IsoDates == {"2025-10-27T16:38:42.277Z", "2025-10-28T09:00:00.000Z"}

\* toISOString().slice(0, 19).replace('T', ' ')
ToMySQLDateTime(iso) ==
  CASE ~Truthy(iso) -> NULL
    [] iso = "2025-10-27T16:38:42.277Z" -> "2025-10-27 16:38:42"
    [] iso = "2025-10-28T09:00:00.000Z" -> "2025-10-28 09:00:00"
    [] OTHER -> InvalidDate

\* new Date(mysqlDateTime).toISOString()
FromMySQLDateTime(dt) ==
  CASE dt = NULL -> NULL
    [] dt = "2025-10-27 16:38:42" -> "2025-10-27T16:38:42.000Z"
    [] dt = "2025-10-28 09:00:00" -> "2025-10-28T09:00:00.000Z"
    [] OTHER -> InvalidDate

(***************************************************************************)
(* Tags.  A request carries no tags (NoTags) or a list of strings           *)
(* (TagList); the JSON column holds SQL NULL (NullJson) or a JSON text.    *)
(* A JSON text is the sequence of its tokens: brackets, commas and quoted  *)
(* strings.                                                                *)
(***************************************************************************)
NoTags == [tags |-> "absent"]

TagList(l) == [tags |-> "list", l |-> l]

Punct(c) == [k |-> "punct", v |-> c]

Quoted(s) == [k |-> "str", v |-> s]

RECURSIVE Elements(_)
Elements(l) ==
  IF l = <<>> THEN <<>>
  ELSE IF Len(l) = 1 THEN <<Quoted(l[1])>>
  ELSE <<Quoted(Head(l)), Punct(",")>> \o Elements(Tail(l))

\* JSON.stringify of an array of strings: ["a","b"]
JsonText(l) == <<Punct("[")>> \o Elements(l) \o <<Punct("]")>>

JSONStringify(l) == [col |-> "json", text |-> JsonText(l)]

NullJson == [col |-> "null"]

\* JSON.parse succeeds on the text and gives an array of strings.
IsJsonArray(text) ==
  /\ Len(text) >= 2
  /\ text[1] = Punct("[")
  /\ text[Len(text)] = Punct("]")
  /\ Len(text) = 2 \/ Len(text) % 2 = 1
  /\ \A i \in 2..(Len(text) - 1) :
        IF i % 2 = 0 THEN text[i].k = "str" ELSE text[i] = Punct(",")

\* A parse that gives the strings between the brackets last to first.
JSONParseBackwards(text) ==
  [i \in 1..((Len(text) - 1) \div 2) |-> text[Len(text) + 1 - 2 * i].v]

\* JSON.parse of such a text: the strings between the brackets, in order.
JSONParse(text) == [i \in 1..((Len(text) - 1) \div 2) |-> text[2 * i].v]

\* raw.split(',').map(s => s.trim()).filter(Boolean): the non-empty pieces
\* of the text between its commas.
RECURSIVE SplitAtCommas(_, _)
SplitAtCommas(text, piece) ==
  IF text = <<>> THEN (IF piece = <<>> THEN <<>> ELSE <<piece>>)
  ELSE IF Head(text) = Punct(",")
       THEN (IF piece = <<>> THEN <<>> ELSE <<piece>>) \o SplitAtCommas(Tail(text), <<>>)
       ELSE SplitAtCommas(Tail(text), Append(piece, Head(text)))

Pieces(parts) == [tags |-> "pieces", parts |-> parts]

\* goals.controller parseTagsValue, on a request value or a stored column:
\* null stays null, a list stays a list, a JSON text is parsed, and a text
\* that JSON.parse rejects is split at its commas (null when nothing is left).
parseTagsValue(raw) ==
  IF "col" \in DOMAIN raw
  THEN (IF raw.col = "null" THEN NoTags
        ELSE IF IsJsonArray(raw.text) THEN TagList(JSONParse(raw.text))
        ELSE IF SplitAtCommas(raw.text, <<>>) = <<>> THEN NoTags
        ELSE Pieces(SplitAtCommas(raw.text, <<>>)))
  ELSE raw

(***************************************************************************)
(* Strings that the AI code paths inspect.  A string is a tagged record:   *)
(*   literal   - a given string s, with the set kw of the words of the     *)
(*               lexicons below that occur in it (String.includes) and     *)
(*               the outcome json of JSON.parse on it;                     *)
(*   static    - a string constant of the code that nothing inspects;      *)
(*   fallback, extracted, prompt, analysis - strings built by the code     *)
(*               from the value they record.                               *)
(***************************************************************************)
NoTxt == [t |-> "undef"]

NullTxt == [t |-> "null"]

\* JSON.parse throws on the string.
NotJson == [t |-> "notjson"]

Lit(s, kw, json) == [t |-> "text", form |-> "literal", s |-> s, kw |-> kw, json |-> json]

StaticText(s) == [t |-> "text", form |-> "static", s |-> s]

\* JavaScript truthiness of a tagged value.
JsTruthy(v) ==
  CASE v.t \in {"undef", "null"} -> FALSE
    [] v.t = "num" -> v.n # 0
    [] v.t = "str" -> v.s # ""
    [] v.t = "text" -> ~(v.form = "literal" /\ v.s = "")
    [] OTHER -> TRUE

(***************************************************************************)
(* Goals                                                                   *)
(***************************************************************************)
Priorities == {"low", "medium", "high"}

GoalWhereAnyOwner(id, userId) == IF id \in DOMAIN goals THEN {id} ELSE {}

\* WHERE id = ? AND user_id = ?
GoalWhere(id, userId) ==
  IF id \in DOMAIN goals /\ goals[id].user_id = userId THEN {id} ELSE {}

GoalView(row) == [kind |-> "goal", row |-> [row EXCEPT !.tags = parseTagsValue(row.tags)]]

NoGoalBody ==
  [title |-> UNDEF, note |-> UNDEF, due_at |-> UNDEF, completed |-> UNDEF,
   completed_at |-> UNDEF, priority |-> UNDEF, tags |-> NoTags]

GoalCreateBodies ==
  { [NoGoalBody EXCEPT !.title = t, !.priority = p] :
      t \in {UNDEF, "Run 5k"}, p \in {UNDEF, "urgent"} }

GoalUpdateBodies ==
  { NoGoalBody,
    [NoGoalBody EXCEPT !.completed = "true"],
    [NoGoalBody EXCEPT !.completed = "false"],
    [NoGoalBody EXCEPT !.completed = "true", !.completed_at = "2025-11-01"],
    [NoGoalBody EXCEPT !.completed = "false", !.completed_at = NULL],
    [NoGoalBody EXCEPT !.title = "Run 10k", !.priority = "low"],
    [NoGoalBody EXCEPT !.priority = "urgent"] }

\* The smaller choice of bodies used when all four stores run together.
GoalCreateBodiesStore == {NoGoalBody, [NoGoalBody EXCEPT !.title = "Run 5k"]}

GoalUpdateBodiesStore ==
  {[NoGoalBody EXCEPT !.title = "Run 10k"], [NoGoalBody EXCEPT !.priority = "urgent"]}

\* goals.service createGoal: the inserted row.
createGoalRow(userId, b) ==
  [user_id |-> userId,
   title |-> b.title,
   note |-> IF Truthy(b.note) THEN b.note ELSE NULL,
   due_at |-> IF Truthy(b.due_at) THEN b.due_at ELSE NULL,
   completed |-> 0,
   completed_at |-> NULL,
   priority |-> IF b.priority = UNDEF THEN "medium" ELSE b.priority,
   tags |-> IF b.tags = NoTags THEN NullJson ELSE JSONStringify(b.tags.l)]

\* An update that also stamps completed_at whenever completed is supplied.
updateGoalRowStamping(row, b) ==
  [row EXCEPT
     !.title = IF b.title # UNDEF THEN b.title ELSE @,
     !.completed = IF b.completed # UNDEF THEN (IF Truthy(b.completed) THEN 1 ELSE 0) ELSE @,
     !.completed_at = IF b.completed # UNDEF
                      THEN (IF Truthy(b.completed) THEN "2025-11-01" ELSE NULL) ELSE @,
     !.priority = IF b.priority # UNDEF THEN b.priority ELSE @]

\* goals.service updateGoal: the SET list, one column per supplied field.
updateGoalRow(row, b) ==
  [row EXCEPT
     !.title = IF b.title # UNDEF THEN b.title ELSE @,
     !.note = IF b.note # UNDEF THEN b.note ELSE @,
     !.due_at = IF b.due_at # UNDEF THEN b.due_at ELSE @,
     !.completed = IF b.completed # UNDEF THEN (IF Truthy(b.completed) THEN 1 ELSE 0) ELSE @,
     !.completed_at = IF b.completed_at # UNDEF THEN b.completed_at ELSE @,
     !.priority = IF b.priority # UNDEF THEN b.priority ELSE @,
     !.tags = IF b.tags # NoTags THEN JSONStringify(b.tags.l) ELSE @]

\* POST /api/goals
GoalCreate(u, b) ==
  /\ IF ~Truthy(b.title)
     THEN /\ resp' = Response("create", "goals", u, 0, 400, NoBody)
          /\ UNCHANGED <<goals, goalSeq>>
     ELSE IF b.priority # UNDEF /\ b.priority \notin Priorities
     THEN \* ENUM column, strict SQL mode: the INSERT fails
          /\ resp' = Response("create", "goals", u, 0, 500, ErrorBody(EnumError))
          /\ UNCHANGED <<goals, goalSeq>>
     ELSE /\ RowCount < MaxRows
          /\ goalSeq < MaxGoalId
          /\ goalSeq' = goalSeq + 1
          /\ goals' = (goalSeq' :> createGoalRow(u, b)) @@ goals
          /\ resp' = Response("create", "goals", u, goalSeq', 201,
                              GoalView(createGoalRow(u, b)))
  /\ UNCHANGED notGoals

\* GET /api/goals/:id
GoalGet(u, id) ==
  /\ resp' = IF GoalWhere(id, u) = {}
             THEN Response("get", "goals", u, id, 404, NoBody)
             ELSE Response("get", "goals", u, id, 200, GoalView(goals[id]))
  /\ UNCHANGED <<storeVars, env, call>>

\* PUT /api/goals/:id
GoalUpdate(u, id, b) ==
  /\ IF b.priority # UNDEF /\ b.priority \notin Priorities /\ GoalWhere(id, u) # {}
     THEN /\ resp' = Response("update", "goals", u, id, 500, ErrorBody(EnumError))
          /\ UNCHANGED goals
     ELSE /\ goals' = [x \in DOMAIN goals |->
                         IF x \in GoalWhere(id, u) THEN updateGoalRow(goals[x], b)
                         ELSE goals[x]]
          /\ resp' = IF GoalWhere(id, u) = {}
                     THEN Response("update", "goals", u, id, 404, NoBody)
                     ELSE Response("update", "goals", u, id, 200, GoalView(goals'[id]))
  /\ UNCHANGED <<goalSeq, notGoals>>

\* DELETE /api/goals/:id
GoalDelete(u, id) ==
  /\ goals' = [x \in DOMAIN goals \ GoalWhere(id, u) |-> goals[x]]
  /\ resp' = IF GoalWhere(id, u) = {}
             THEN Response("delete", "goals", u, id, 404, NoBody)
             ELSE Response("delete", "goals", u, id, 200, NoBody)
  /\ UNCHANGED <<goalSeq, notGoals>>

(***************************************************************************)
(* Mood entries                                                            *)
(***************************************************************************)
StrIds == {"id1", "id2"}

\* WHERE id = ? AND user_id = ?
MoodWhere(id, userId) ==
  IF id \in DOMAIN moods /\ moods[id].user_id = userId THEN {id} ELSE {}

\* Array.isArray(tags) ? JSON.stringify(tags) : null
TagsColumn(tags) == IF tags.tags = "list" THEN JSONStringify(tags.l) ELSE NullJson

\* The tags a sanitizeEntry returns: the parsed column when it is a list, else [].
TagsOut(column) ==
  IF column.col = "json" /\ IsJsonArray(column.text) THEN JSONParse(column.text) ELSE <<>>

\* mood.service sanitizeEntry
sanitizeMood(id, row) ==
  [kind |-> "mood",
   id |-> id,
   score |-> IF row.score # 0 THEN row.score ELSE 1,
   energy |-> IF row.energy # 0 THEN row.energy ELSE 3,
   intensity |-> IF row.intensity # 0 THEN row.intensity ELSE 3,
   emoji |-> row.emoji,
   note |-> row.note,
   date |-> FromMySQLDateTime(row.date),
   tags |-> TagsOut(row.tags)]

NoMoodBody ==
  [id |-> UNDEF, score |-> Undef, energy |-> Undef, intensity |-> Undef,
   emoji |-> UNDEF, note |-> UNDEF, date |-> UNDEF, tags |-> NoTags]

ScoreInputs == {Undef, Num(0), Num(3), Num(7), Num(-2), Str("abc")}

MoodCreateBodies ==
  { [NoMoodBody EXCEPT !.score = s, !.energy = e, !.date = d] :
      s \in ScoreInputs, e \in {Undef, Num(0), Num(6)},
      d \in {UNDEF, "2025-10-27T16:38:42.277Z"} }

MoodUpdateBodies ==
  { NoMoodBody,
    [NoMoodBody EXCEPT !.score = Num(0)],
    [NoMoodBody EXCEPT !.score = Num(7)],
    [NoMoodBody EXCEPT !.energy = Num(-2), !.intensity = Num(0)],
    [NoMoodBody EXCEPT !.intensity = Str("abc")],
    [NoMoodBody EXCEPT !.date = "yesterday"] }

MoodCreateBodiesStore ==
  {NoMoodBody} \cup
  { [NoMoodBody EXCEPT !.id = i, !.score = Num(3), !.date = "2025-10-27T16:38:42.277Z"] :
      i \in {UNDEF} \cup StrIds }

MoodUpdateBodiesStore ==
  {[NoMoodBody EXCEPT !.score = Num(5)], [NoMoodBody EXCEPT !.date = "yesterday"]}

\* mood.service createEntry: the inserted row.
createMoodRow(userId, b) ==
  [user_id |-> userId,
   score |-> ParseIntOr(b.score, 1),
   energy |-> ParseIntOr(b.energy, 3),
   intensity |-> ParseIntOr(b.intensity, 3),
   emoji |-> IF Truthy(b.emoji) THEN b.emoji ELSE "neutral-face",
   note |-> IF Truthy(b.note) THEN b.note ELSE NULL,
   date |-> ToMySQLDateTime(b.date),
   tags |-> TagsColumn(b.tags)]

\* mood.service updateEntry: the SET list, one column per supplied field.
updateMoodRow(row, b) ==
  [row EXCEPT
     !.score = IF b.score.t # "undef" THEN ParseIntOr(b.score, 1) ELSE @,
     !.energy = IF b.energy.t # "undef" THEN ParseIntOr(b.energy, 3) ELSE @,
     !.intensity = IF b.intensity.t # "undef" THEN ParseIntOr(b.intensity, 3) ELSE @,
     !.emoji = IF b.emoji # UNDEF THEN b.emoji ELSE @,
     !.note = IF b.note # UNDEF THEN (IF Truthy(b.note) THEN b.note ELSE NULL) ELSE @,
     !.date = IF b.date # UNDEF THEN ToMySQLDateTime(b.date) ELSE @,
     !.tags = IF b.tags # NoTags THEN TagsColumn(b.tags) ELSE @]

\* POST /api/mood/entries
MoodCreate(u, b) ==
  /\ IF NumFalsy(b.score) \/ ~Truthy(b.date)
     THEN /\ resp' = Response("create", "moods", u, b.id, 400, NoBody)
          /\ UNCHANGED moods
     ELSE IF ToMySQLDateTime(b.date) = InvalidDate
     THEN \* toISOString() throws RangeError: Invalid time value
          /\ resp' = Response("create", "moods", u, b.id, 500, ErrorBody(InvalidTime))
          /\ UNCHANGED moods
     ELSE IF b.id \in DOMAIN moods
     THEN \* duplicate primary key: the INSERT fails
          /\ resp' = Response("create", "moods", u, b.id, 500, ErrorBody(DuplicateKey))
          /\ UNCHANGED moods
     ELSE /\ RowCount < MaxRows
          /\ \E entryId \in StrIds \ DOMAIN moods :
               /\ b.id \in {UNDEF, entryId}
               /\ moods' = (entryId :> createMoodRow(u, b)) @@ moods
               /\ resp' = Response("create", "moods", u, entryId, 201,
                                   sanitizeMood(entryId, createMoodRow(u, b)))
  /\ UNCHANGED notMoods

\* GET /api/mood/entries/:id
MoodGet(u, id) ==
  /\ resp' = IF MoodWhere(id, u) = {}
             THEN Response("get", "moods", u, id, 404, NoBody)
             ELSE Response("get", "moods", u, id, 200, sanitizeMood(id, moods[id]))
  /\ UNCHANGED <<storeVars, env, call>>

\* PUT /api/mood/entries/:id
MoodUpdate(u, id, b) ==
  /\ IF b.date # UNDEF /\ ToMySQLDateTime(b.date) = InvalidDate
     THEN /\ resp' = Response("update", "moods", u, id, 500, ErrorBody(InvalidTime))
          /\ UNCHANGED moods
     ELSE /\ moods' = [x \in DOMAIN moods |->
                         IF x \in MoodWhere(id, u) THEN updateMoodRow(moods[x], b)
                         ELSE moods[x]]
          /\ resp' = IF MoodWhere(id, u) = {}
                     THEN Response("update", "moods", u, id, 404, NoBody)
                     ELSE Response("update", "moods", u, id, 200,
                                   sanitizeMood(id, moods'[id]))
  /\ UNCHANGED notMoods

\* DELETE /api/mood/entries/:id
MoodDelete(u, id) ==
  /\ moods' = [x \in DOMAIN moods \ MoodWhere(id, u) |-> moods[x]]
  /\ resp' = IF MoodWhere(id, u) = {}
             THEN Response("delete", "moods", u, id, 404, NoBody)
             ELSE Response("delete", "moods", u, id, 200, NoBody)
  /\ UNCHANGED notMoods

(***************************************************************************)
(* Journal entries                                                         *)
(***************************************************************************)
\* The texts a client writes.
TextHappy == Lit("Today was great. I feel happy", {"great", "happy"}, NotJson)

TextSad == Lit("Terrible day. I am sad and tired", {"terrible", "sad", "tired"}, NotJson)

TextPlain == Lit("Just a regular day", {}, NotJson)

TextMixed == Lit("Good start but a tough evening", {"good", "tough"}, NotJson)

TextBlank == Lit("   ", {}, NotJson)

JournalTexts == {TextHappy, TextSad, TextPlain, TextMixed}

\* MOOD_MAP[emoji] || 'happy'
MoodToDb(emoji) ==
  CASE emoji = "smile" -> "happy"
    [] emoji = "meh" -> "neutral"
    [] emoji = "frown" -> "sad"
    [] OTHER -> "happy"

\* MOOD_REVERSE_MAP[mood] || smile
MoodFromDb(mood) ==
  CASE mood = "happy" -> "smile"
    [] mood = "neutral" -> "meh"
    [] mood = "sad" -> "frown"
    [] OTHER -> "smile"

Sentiments == {"positive", "neutral", "negative"}

\* WHERE id = ? AND user_id = ?
JournalWhere(id, userId) ==
  IF id \in DOMAIN journal /\ journal[id].user_id = userId THEN {id} ELSE {}

\* journal.service sanitizeEntry
sanitizeJournal(id, row) ==
  [kind |-> "journal",
   id |-> id,
   mood |-> MoodFromDb(row.mood),
   text |-> row.text,
   tags |-> TagsOut(row.tags),
   summary |-> row.summary,
   sentiment |-> row.sentiment]

NoJournalBody ==
  [id |-> UNDEF, mood |-> UNDEF, text |-> NoTxt, tags |-> NoTags,
   summary |-> NoTxt, sentiment |-> UNDEF]

JournalCreateBodiesStore ==
  {NoJournalBody, [NoJournalBody EXCEPT !.text = TextBlank]} \cup
  { [NoJournalBody EXCEPT !.id = i, !.text = TextPlain] :
      i \in {UNDEF} \cup StrIds }

JournalUpdateBodiesStore ==
  {[NoJournalBody EXCEPT !.mood = "meh"], [NoJournalBody EXCEPT !.sentiment = "mixed"]}

\* journal.service createEntry: the inserted row.
createJournalRow(userId, b) ==
  [user_id |-> userId,
   mood |-> MoodToDb(b.mood),
   text |-> b.text,
   tags |-> TagsColumn(b.tags),
   summary |-> NullTxt,
   sentiment |-> NULL]

\* journal.service updateEntry: the SET list, one column per supplied field.
updateJournalRow(row, b) ==
  [row EXCEPT
     !.mood = IF b.mood # UNDEF THEN MoodToDb(b.mood) ELSE @,
     !.text = IF b.text.t # "undef" THEN b.text ELSE @,
     !.tags = IF b.tags # NoTags THEN TagsColumn(b.tags) ELSE @,
     !.summary = IF b.summary.t # "undef"
                 THEN (IF JsTruthy(b.summary) THEN b.summary ELSE NullTxt) ELSE @,
     !.sentiment = IF b.sentiment # UNDEF
                   THEN (IF Truthy(b.sentiment) THEN b.sentiment ELSE NULL) ELSE @]

\* POST /api/journal/entries
JournalCreate(u, b) ==
  /\ IF ~JsTruthy(b.text) \/ b.text = TextBlank
     THEN /\ resp' = Response("create", "journal", u, b.id, 400, NoBody)
          /\ UNCHANGED journal
     ELSE IF b.id \in DOMAIN journal
     THEN \* duplicate primary key: the INSERT fails
          /\ resp' = Response("create", "journal", u, b.id, 500, ErrorBody(DuplicateKey))
          /\ UNCHANGED journal
     ELSE /\ RowCount < MaxRows
          /\ \E entryId \in StrIds \ DOMAIN journal :
               /\ b.id \in {UNDEF, entryId}
               /\ journal' = (entryId :> createJournalRow(u, b)) @@ journal
               /\ resp' = Response("create", "journal", u, entryId, 201,
                                   sanitizeJournal(entryId, createJournalRow(u, b)))
  /\ UNCHANGED notJournal

\* GET /api/journal/entries/:id
JournalGet(u, id) ==
  /\ resp' = IF JournalWhere(id, u) = {}
             THEN Response("get", "journal", u, id, 404, NoBody)
             ELSE Response("get", "journal", u, id, 200, sanitizeJournal(id, journal[id]))
  /\ UNCHANGED <<storeVars, env, call>>

\* PUT /api/journal/entries/:id
JournalUpdate(u, id, b) ==
  /\ IF /\ Truthy(b.sentiment) /\ b.sentiment \notin Sentiments
        /\ JournalWhere(id, u) # {}
     THEN \* ENUM column, strict SQL mode: the UPDATE fails
          /\ resp' = Response("update", "journal", u, id, 500, ErrorBody(EnumError))
          /\ UNCHANGED journal
     ELSE /\ journal' = [x \in DOMAIN journal |->
                           IF x \in JournalWhere(id, u)
                           THEN updateJournalRow(journal[x], b) ELSE journal[x]]
          /\ resp' = IF JournalWhere(id, u) = {}
                     THEN Response("update", "journal", u, id, 404, NoBody)
                     ELSE Response("update", "journal", u, id, 200,
                                   sanitizeJournal(id, journal'[id]))
  /\ UNCHANGED notJournal

\* DELETE /api/journal/entries/:id
JournalDelete(u, id) ==
  /\ journal' = [x \in DOMAIN journal \ JournalWhere(id, u) |-> journal[x]]
  /\ resp' = IF JournalWhere(id, u) = {}
             THEN Response("delete", "journal", u, id, 404, NoBody)
             ELSE Response("delete", "journal", u, id, 200, NoBody)
  /\ UNCHANGED notJournal

(***************************************************************************)
(* Meditation runs                                                         *)
(***************************************************************************)
\* WHERE id = ? AND user_id = ?
RunWhere(id, userId) ==
  IF id \in DOMAIN runs /\ runs[id].user_id = userId THEN {id} ELSE {}

\* sanitizeRun over a row joined with its session: the title is the
\* session's present one.
sanitizeRunJoined(id, row) ==
  [kind |-> "run",
   id |-> id,
   sessionId |-> IF row.session_id \in DOMAIN sessions THEN row.session_id ELSE NULL,
   sessionTitle |-> IF row.session_id \in DOMAIN sessions
                    THEN sessions[row.session_id].title ELSE NULL,
   startedAt |-> FromMySQLDateTime(row.started_at),
   endedAt |-> FromMySQLDateTime(row.ended_at),
   plannedMinutes |-> row.planned_minutes,
   actualSeconds |-> row.actual_seconds,
   completed |-> row.completed = 1,
   note |-> row.note]

\* meditation.service sanitizeRun
sanitizeRun(id, row) ==
  [kind |-> "run",
   id |-> id,
   sessionId |-> row.session_id,
   sessionTitle |-> row.session_title,
   startedAt |-> FromMySQLDateTime(row.started_at),
   endedAt |-> FromMySQLDateTime(row.ended_at),
   plannedMinutes |-> row.planned_minutes,
   actualSeconds |-> row.actual_seconds,
   completed |-> row.completed = 1,
   note |-> row.note]

NoRunBody ==
  [id |-> UNDEF, session_id |-> UNDEF, session_title |-> UNDEF, started_at |-> UNDEF,
   ended_at |-> UNDEF, planned_minutes |-> Undef, actual_seconds |-> Undef,
   completed |-> UNDEF, note |-> UNDEF]

RunCreateBodiesStore ==
  {NoRunBody, [NoRunBody EXCEPT !.started_at = "yesterday"]} \cup
  { [NoRunBody EXCEPT !.id = i, !.started_at = "2025-10-27T16:38:42.277Z"] :
      i \in {UNDEF} \cup StrIds }

RunUpdateBodiesStore ==
  {[NoRunBody EXCEPT !.ended_at = "2025-10-28T09:00:00.000Z", !.completed = "true"],
   [NoRunBody EXCEPT !.started_at = "yesterday"]}

\* meditation.service createRun: the inserted row.
createRunRow(userId, b) ==
  [user_id |-> userId,
   session_id |-> IF Truthy(b.session_id) THEN b.session_id ELSE NULL,
   session_title |-> IF Truthy(b.session_title) THEN b.session_title ELSE NULL,
   started_at |-> ToMySQLDateTime(b.started_at),
   ended_at |-> ToMySQLDateTime(b.ended_at),
   planned_minutes |-> ParseIntOr(b.planned_minutes, 0),
   actual_seconds |-> ParseIntOr(b.actual_seconds, 0),
   completed |-> IF Truthy(b.completed) THEN 1 ELSE 0,
   note |-> IF Truthy(b.note) THEN b.note ELSE NULL]

\* meditation.service updateRun: the SET list, one column per supplied field.
updateRunRow(row, b) ==
  [row EXCEPT
     !.session_id = IF b.session_id # UNDEF THEN b.session_id ELSE @,
     !.session_title = IF b.session_title # UNDEF THEN b.session_title ELSE @,
     !.started_at = IF b.started_at # UNDEF THEN ToMySQLDateTime(b.started_at) ELSE @,
     !.ended_at = IF b.ended_at # UNDEF THEN ToMySQLDateTime(b.ended_at) ELSE @,
     !.planned_minutes = IF b.planned_minutes.t # "undef"
                         THEN ParseIntOr(b.planned_minutes, 0) ELSE @,
     !.actual_seconds = IF b.actual_seconds.t # "undef"
                        THEN ParseIntOr(b.actual_seconds, 0) ELSE @,
     !.completed = IF b.completed # UNDEF THEN (IF Truthy(b.completed) THEN 1 ELSE 0) ELSE @,
     !.note = IF b.note # UNDEF THEN b.note ELSE @]

\* A date of the body that new Date() cannot parse: toISOString() throws.
RunDateThrows(b) ==
  \/ ToMySQLDateTime(b.started_at) = InvalidDate
  \/ ToMySQLDateTime(b.ended_at) = InvalidDate

\* POST /api/meditation/runs
RunCreate(u, b) ==
  /\ IF ~Truthy(b.started_at)
     THEN /\ resp' = Response("create", "runs", u, b.id, 400, NoBody)
          /\ UNCHANGED runs
     ELSE IF RunDateThrows(b)
     THEN /\ resp' = Response("create", "runs", u, b.id, 500, ErrorBody(InvalidTime))
          /\ UNCHANGED runs
     ELSE IF b.id \in DOMAIN runs
     THEN \* duplicate primary key: the INSERT fails
          /\ resp' = Response("create", "runs", u, b.id, 500, ErrorBody(DuplicateKey))
          /\ UNCHANGED runs
     ELSE /\ RowCount < MaxRows
          /\ \E runId \in StrIds \ DOMAIN runs :
               /\ b.id \in {UNDEF, runId}
               /\ runs' = (runId :> createRunRow(u, b)) @@ runs
               /\ resp' = Response("create", "runs", u, runId, 201,
                                   sanitizeRun(runId, createRunRow(u, b)))
  /\ UNCHANGED notRuns

\* GET /api/meditation/runs/:id
RunGet(u, id) ==
  /\ resp' = IF RunWhere(id, u) = {}
             THEN Response("get", "runs", u, id, 404, NoBody)
             ELSE Response("get", "runs", u, id, 200, sanitizeRun(id, runs[id]))
  /\ UNCHANGED <<storeVars, env, call>>

\* PUT /api/meditation/runs/:id
RunUpdate(u, id, b) ==
  /\ IF RunDateThrows(b)
     THEN /\ resp' = Response("update", "runs", u, id, 500, ErrorBody(InvalidTime))
          /\ UNCHANGED runs
     ELSE /\ runs' = [x \in DOMAIN runs |->
                        IF x \in RunWhere(id, u) THEN updateRunRow(runs[x], b)
                        ELSE runs[x]]
          /\ resp' = IF RunWhere(id, u) = {}
                     THEN Response("update", "runs", u, id, 404, NoBody)
                     ELSE Response("update", "runs", u, id, 200, sanitizeRun(id, runs'[id]))
  /\ UNCHANGED notRuns

\* DELETE /api/meditation/runs/:id
RunDelete(u, id) ==
  /\ runs' = [x \in DOMAIN runs \ RunWhere(id, u) |-> runs[x]]
  /\ resp' = IF RunWhere(id, u) = {}
             THEN Response("delete", "runs", u, id, 404, NoBody)
             ELSE Response("delete", "runs", u, id, 200, NoBody)
  /\ UNCHANGED notRuns

(***************************************************************************)
(* The stores' specification: any user issues any request, one at a time.  *)
(***************************************************************************)
EmptyTable == [x \in {} |-> NoBody]

\* The accounts of the users that send the requests: the row of users that
\* the auth middleware loads for each of them.
Emails == {"ann@example.org", "bob@example.org"}

EmailOf(u) == IF u = 1 THEN "ann@example.org" ELSE "bob@example.org"

\* bcrypt.hash(password, 10): a digest that bcrypt.compare matches with the
\* password, never the password itself.
bcryptHash(password) == [bcrypt |-> password]

Account(name, email, password) ==
  [name |-> name, email |-> email, password_hash |-> bcryptHash(password)]

Accounts == [u \in Users |-> Account("user", EmailOf(u), "secret")]

\* No register request is in progress.
NoRegistrations == <<>>

\* No create request is between its INSERT and its re-read.
NoPending == <<>>

\* The auth context of a browser in which nobody is logged in.
LoggedOut == [state |-> "none"]

\* The meditation page while it is not open.
ClosedPage == [state |-> "closed"]

NoCall == [pc |-> "idle"]

InitStore ==
  /\ goals = EmptyTable
  /\ goalSeq = 0
  /\ moods = EmptyTable
  /\ journal = EmptyTable
  /\ runs = EmptyTable
  /\ sessions = EmptyTable
  /\ users = Accounts
  /\ reg = NoRegistrations
  /\ pending = NoPending
  /\ client = LoggedOut
  /\ page = ClosedPage
  /\ resp = Response("none", "none", 0, 0, 0, NoBody)
  /\ env = [mock |-> FALSE, client |-> FALSE]
  /\ call = NoCall

GoalIds == 1..MaxGoalId

NextStore ==
  \/ \E u \in Users, b \in GoalCreateBodiesStore : GoalCreate(u, b)
  \/ \E u \in Users, id \in GoalIds : GoalGet(u, id)
  \/ \E u \in Users, id \in GoalIds, b \in GoalUpdateBodiesStore : GoalUpdate(u, id, b)
  \/ \E u \in Users, id \in GoalIds : GoalDelete(u, id)
  \/ \E u \in Users, b \in MoodCreateBodiesStore : MoodCreate(u, b)
  \/ \E u \in Users, id \in StrIds : MoodGet(u, id)
  \/ \E u \in Users, id \in StrIds, b \in MoodUpdateBodiesStore : MoodUpdate(u, id, b)
  \/ \E u \in Users, id \in StrIds : MoodDelete(u, id)
  \/ \E u \in Users, b \in JournalCreateBodiesStore : JournalCreate(u, b)
  \/ \E u \in Users, id \in StrIds : JournalGet(u, id)
  \/ \E u \in Users, id \in StrIds, b \in JournalUpdateBodiesStore : JournalUpdate(u, id, b)
  \/ \E u \in Users, id \in StrIds : JournalDelete(u, id)
  \/ \E u \in Users, b \in RunCreateBodiesStore : RunCreate(u, b)
  \/ \E u \in Users, id \in StrIds : RunGet(u, id)
  \/ \E u \in Users, id \in StrIds, b \in RunUpdateBodiesStore : RunUpdate(u, id, b)
  \/ \E u \in Users, id \in StrIds : RunDelete(u, id)

SpecStore == InitStore /\ [][NextStore]_vars

\* The goals store alone, with the wider choice of request bodies.
NextGoals ==
  \/ \E u \in Users, b \in GoalCreateBodies : GoalCreate(u, b)
  \/ \E u \in Users, id \in GoalIds : GoalGet(u, id)
  \/ \E u \in Users, id \in GoalIds, b \in GoalUpdateBodies : GoalUpdate(u, id, b)
  \/ \E u \in Users, id \in GoalIds : GoalDelete(u, id)

SpecGoals == InitStore /\ [][NextGoals]_vars

\* The mood store alone, with the wider choice of request bodies.
NextMoods ==
  \/ \E u \in Users, b \in MoodCreateBodies : MoodCreate(u, b)
  \/ \E u \in Users, id \in StrIds : MoodGet(u, id)
  \/ \E u \in Users, id \in StrIds, b \in MoodUpdateBodies : MoodUpdate(u, id, b)
  \/ \E u \in Users, id \in StrIds : MoodDelete(u, id)

SpecMoods == InitStore /\ [][NextMoods]_vars

(***************************************************************************)
(* deepseek.service: the summarization adapter                             *)
(***************************************************************************)
\* The lexicons of generateFallbackSummary.
PositiveWords ==
  {"happy", "good", "great", "excellent", "wonderful", "amazing", "love", "joy",
   "excited", "grateful", "pleased", "delighted", "thrilled", "optimistic", "cheerful",
   "fantastic", "awesome", "brilliant", "perfect", "satisfied", "proud", "accomplished",
   "successful", "relaxed", "peaceful"}

NegativeWords ==
  {"sad", "bad", "terrible", "awful", "hate", "angry", "frustrated", "stressed",
   "worried", "disappointed", "upset", "depressed", "anxious", "overwhelmed", "miserable",
   "horrible", "disgusting", "annoyed", "irritated", "exhausted", "tired", "difficult",
   "challenging", "tough"}

validSentiments == {"positive", "neutral", "negative"}

\* Default attempt count of generateSummary when options.retries is not >= 0.
DefaultAttempts == 2

maxAttemptsOneMore(retries) ==
  IF retries.t = "num" /\ retries.n >= 0 THEN retries.n + 2 ELSE DefaultAttempts

\* const maxAttempts = options.retries >= 0 ? options.retries + 1 : 2
\* (retries is a number, or absent).
maxAttemptsOf(retries) ==
  IF retries.t = "num" /\ retries.n >= 0 THEN retries.n + 1 ELSE DefaultAttempts

\* String.prototype.toLowerCase on the sentiment strings a provider sends.
ToLowerCase(s) ==
  CASE s = "Negative" -> "negative"
    [] s = "POSITIVE" -> "positive"
    [] OTHER -> s

\* The lexicon words that occur in a string the code inspects.
Kw(x) ==
  CASE x.form = "literal" -> x.kw
    [] x.form = "prompt" -> {"excellent", "good", "progress"} \cup x.titleKw

\* What a generateSummary call returns.
Result(summary, sentiment, provider, error, fallback, extracted) ==
  [success |-> TRUE, summary |-> summary, sentiment |-> sentiment, provider |-> provider,
   error |-> error, fallback |-> fallback, extracted |-> extracted]

MockSummaryText ==
  Lit("Mock summary: consistent progress and steady mood.", {"progress", "summary"}, NotJson)

\* A JSON object as the analysis code reads it: the fields it looks at.
Payload(summary, suggestions, insights, sentiment) ==
  [t |-> "obj", summary |-> summary, suggestions |-> suggestions, insights |-> insights,
   sentiment |-> sentiment, completionRate |-> Undef, mindfulness |-> Undef,
   confidence |-> Undef]

\* The object the mock serializes into its summary field.
MockPayload == Payload(MockSummaryText, Undef, Undef, Str("neutral"))

\* generateSummary, mock shortcut: summary is JSON.stringify of the payload.
MockResult ==
  Result(Lit("{\"summary\":\"Mock summary: consistent progress and steady mood.\",\"sentiment\":\"neutral\"}",
             {"progress", "summary", "neutral"}, MockPayload),
         "neutral", "mock", NULL, FALSE, FALSE)

\* generateFallbackSummary(text, error): lexicon counts decide the sentiment,
\* the summary is built from the word and sentence counts and the first
\* sentence of the text, followed by a sentence on the tone.
generateFallbackSummary(text, error) ==
  LET positiveCount == Cardinality(Kw(text) \cap PositiveWords)
      negativeCount == Cardinality(Kw(text) \cap NegativeWords)
      sentiment == IF positiveCount > negativeCount THEN "positive"
                   ELSE IF negativeCount > positiveCount THEN "negative"
                   ELSE "neutral"
  IN  Result([t |-> "text", form |-> "fallback", of |-> text, tone |-> sentiment],
             sentiment, "deepseek-fallback", error, TRUE, FALSE)

\* The words of extractManually that occur in the raw response text.
RawKw(content) ==
  CASE content.c = "json" ->
         (IF content.o.summary.t = "undef" THEN {} ELSE {"summary"})
         \cup (IF content.o.summary.t = "text" THEN Kw(content.o.summary) ELSE {})
         \cup (IF content.o.summary.t = "obj" /\ content.o.summary.summary.t = "text"
               THEN Kw(content.o.summary.summary) ELSE {})
         \cup (IF content.o.sentiment.t = "str"
               THEN {ToLowerCase(content.o.sentiment.s)} \cap validSentiments ELSE {})
    [] content.c \in {"prose", "broken"} -> Kw(content.text)
    [] content.c = "empty" -> {}

\* Some line of the raw text holds 'summary' and ':' and text after the colon.
HasSummaryLine(content) ==
  CASE content.c = "json" -> content.o.summary.t # "undef"
    [] content.c \in {"prose", "broken"} -> content.summaryLine
    [] content.c = "empty" -> FALSE

\* extractManually(responseText)
extractManually(content) ==
  Result(IF HasSummaryLine(content)
         THEN [t |-> "text", form |-> "extracted", of |-> content]
         ELSE StaticText("Unable to extract summary from response"),
         IF "positive" \in RawKw(content) THEN "positive"
         ELSE IF "negative" \in RawKw(content) THEN "negative"
         ELSE "neutral",
         "deepseek", NULL, FALSE, TRUE)

\* parseResponse without the validation of the sentiment: the provider's
\* string is passed on as it came.
parseResponseUnchecked(content) ==
  IF content.c # "json" THEN extractManually(content)
  ELSE Result(IF JsTruthy(content.o.summary) THEN content.o.summary
              ELSE StaticText("Summary not available"),
              IF content.o.sentiment.t = "str" THEN content.o.sentiment.s ELSE "neutral",
              "deepseek", NULL, FALSE, FALSE)

\* parseResponse(responseText): a JSON object found in the text is validated,
\* any exception on the way leads to extractManually on the raw text.
parseResponse(content) ==
  IF content.c # "json" THEN extractManually(content)
  ELSE
    LET parsed == content.o
        lowered == IF JsTruthy(parsed.sentiment) THEN ToLowerCase(parsed.sentiment.s)
                   ELSE "neutral"
        summaryLower == IF JsTruthy(parsed.summary) THEN Kw(parsed.summary) ELSE {}
        derived == IF summaryLower \cap {"positive", "good", "happy"} # {} THEN "positive"
                   ELSE IF summaryLower \cap {"negative", "bad", "sad"} # {} THEN "negative"
                   ELSE "neutral"
    IN  IF JsTruthy(parsed.sentiment) /\ parsed.sentiment.t # "str"
        THEN \* parsed.sentiment.toLowerCase is not a function
             extractManually(content)
        ELSE IF lowered \notin validSentiments /\ JsTruthy(parsed.summary)
                /\ parsed.summary.t # "text"
        THEN \* (parsed.summary || '').toLowerCase is not a function
             extractManually(content)
        ELSE Result(IF JsTruthy(parsed.summary) THEN parsed.summary
                    ELSE StaticText("Summary not available"),
                    IF lowered \in validSentiments THEN lowered ELSE derived,
                    "deepseek", NULL, FALSE, FALSE)

\* Messages of the errors that end a generateSummary call in its catch block.
TimedOut == "DeepSeek request timed out"

FetchFailed == "fetch failed"

ShapeError(lastError) ==
  CASE lastError = NULL -> "Invalid DeepSeek response shape"
    [] lastError = TimedOut -> "Invalid DeepSeek response shape: DeepSeek request timed out"
    [] lastError = FetchFailed -> "Invalid DeepSeek response shape: fetch failed"

(***************************************************************************)
(* dashboard.service: statistics and AI analysis                           *)
(***************************************************************************)
ListOf(items) == [t |-> "list", items |-> items]

\* list?.length || 0
LengthOf(list) == IF list.t = "list" THEN Len(list.items) ELSE 0

ItemsOf(list) == IF list.t = "list" THEN list.items ELSE <<>>

RECURSIVE SumSeq(_)
SumSeq(ns) == IF ns = <<>> THEN 0 ELSE Head(ns) + SumSeq(Tail(ns))

\* Math.floor(a / b): the quotient cut off instead of rounded.
FloorDiv(a, b) == a \div b

\* Math.round(a / b) for b > 0: halves round up.
RoundDiv(a, b) == (2 * a + b) \div (2 * b)

CountWhere(items, P(_)) == Cardinality({i \in 1..Len(items) : P(items[i])})

\* g.priority || 'medium'
PriorityOf(g) == IF Truthy(g.priority) THEN g.priority ELSE "medium"

\* Math.max(0, Math.min(4, (m.score || 1) - 1)), as an index 1..5
MoodIndex(m) ==
  LET score == IF m.score # 0 THEN m.score ELSE 1
      idx == score - 1
  IN  (IF idx < 0 THEN 0 ELSE IF idx > 4 THEN 4 ELSE idx) + 1

Threw == [ok |-> FALSE]

\* calculateStats(goals, moods, medRuns, journalEntries).  avgMood is kept in
\* tenths (avgMood10 = 10 * avgMood).  goalsByPriority[priority] is undefined
\* for a priority outside low, medium, high: the increment throws a TypeError.
calculateStats(goalList, moodList, medRuns, journalEntries) ==
  LET gs == ItemsOf(goalList)
      ms == ItemsOf(moodList)
      rs == ItemsOf(medRuns)
      js == ItemsOf(journalEntries)
      totalGoals == LengthOf(goalList)
      IsCompleted(g) == g.completed
      completedGoals == CountWhere(gs, IsCompleted)
      HasSummary(j) == JsTruthy(j.summary)
      In(p, c) == LET Match(g) == PriorityOf(g) = p /\ g.completed = c
                  IN  CountWhere(gs, Match)
  IN  IF \E i \in 1..Len(gs) : PriorityOf(gs[i]) \notin Priorities
      THEN Threw
      ELSE [ok |-> TRUE,
            totalGoals |-> totalGoals,
            completedGoals |-> completedGoals,
            openGoals |-> totalGoals - completedGoals,
            avgMood10 |-> IF Len(ms) > 0
                          THEN RoundDiv(10 * SumSeq([i \in 1..Len(ms) |-> ms[i].score]), Len(ms))
                          ELSE 0,
            totalMedMinutes |-> SumSeq([i \in 1..Len(rs) |-> RoundDiv(rs[i].actualSeconds, 60)]),
            totalMedSessions |-> LengthOf(medRuns),
            journalCount |-> LengthOf(journalEntries),
            journalWithSummary |-> CountWhere(js, HasSummary),
            moodCounts |-> [k \in 1..5 |->
                              LET AtIndex(m) == MoodIndex(m) = k IN CountWhere(ms, AtIndex)],
            goalsByPriority |-> [p \in Priorities |->
                                   [open |-> In(p, FALSE), completed |-> In(p, TRUE)]],
            completionRate |-> IF totalGoals > 0
                               THEN RoundDiv(100 * completedGoals, totalGoals) ELSE 0]

\* buildAnalysisPrompt: the prompt quotes the statistics and the goal titles.
buildAnalysisPrompt(data) ==
  LET stats == calculateStats(data.goals, data.moods, data.medRuns, data.journalEntries)
  IN  IF ~stats.ok THEN Threw
      ELSE [ok |-> TRUE,
            text |-> [t |-> "text", form |-> "prompt", stats |-> stats,
                      titleKw |-> UNION {Kw(ItemsOf(data.goals)[i].title) :
                                           i \in 1..LengthOf(data.goals)}]]

defaultSuggestions ==
  ListOf(<<StaticText("Continue your current tracking habits"),
           StaticText("Set specific, measurable goals"),
           StaticText("Maintain regular meditation practice"),
           StaticText("Review your progress weekly")>>)

\* Array.prototype.slice(0, 4)
Slice4(items) == SubSeq(items, 1, IF Len(items) < 4 THEN Len(items) ELSE 4)

Insights(mood_trend, goal_progress, mindfulness) ==
  [t |-> "obj", mood_trend |-> mood_trend, goal_progress |-> goal_progress,
   mindfulness |-> mindfulness]

\* extractInsightsManually(text): text.toLowerCase() throws unless text is a string.
extractInsightsManually(text) ==
  IF text.t # "text" THEN Threw
  ELSE [ok |-> TRUE,
        summary |->
          IF Kw(text) \cap {"progress", "improvement"} # {}
          THEN StaticText("Your wellness journey demonstrates positive progress and consistent engagement with your goals.")
          ELSE IF Kw(text) \cap {"challenge", "difficult"} # {}
          THEN StaticText("Your data reveals some challenges, but also shows commitment to tracking and self-improvement.")
          ELSE StaticText("Your wellness data shows active engagement across goals, mood tracking, and mindfulness practices."),
        suggestions |->
          ListOf(<<StaticText("Review your goal completion patterns for insights"),
                   StaticText("Consider increasing meditation frequency if possible"),
                   StaticText("Track mood patterns to identify triggers"),
                   StaticText("Celebrate your progress and maintain consistency")>>),
        insights |-> Insights("stable", "good", "consistent"),
        confidence |-> "medium"]

\* JSON.parse on a string.
ParseJson(x) == IF x.form = "literal" THEN x.json ELSE NotJson

\* The fields parseAIAnalysis reads from the parsed value: a primitive has none.
FieldsOf(parsed) == IF parsed.t = "obj" THEN parsed ELSE Payload(Undef, Undef, Undef, Undef)

\* parseAIAnalysis, after the value has been parsed: defaults for what is missing.
analysisFields(parsed) ==
  LET f == FieldsOf(parsed)
  IN  [ok |-> TRUE,
       summary |-> IF JsTruthy(f.summary) THEN f.summary
                   ELSE StaticText("Your wellness journey shows consistent engagement across multiple areas."),
       suggestions |-> IF f.suggestions.t = "list" THEN ListOf(Slice4(f.suggestions.items))
                       ELSE IF JsTruthy(f.suggestions) THEN ListOf(<<f.suggestions>>)
                       ELSE defaultSuggestions,
       insights |-> IF JsTruthy(f.insights) THEN f.insights
                    ELSE Insights(IF f.sentiment = Str("positive") THEN "improving"
                                  ELSE IF f.sentiment = Str("negative") THEN "declining"
                                  ELSE "stable",
                                  IF JsTruthy(f.completionRate)
                                  THEN (IF f.completionRate.n > 60 THEN "excellent"
                                        ELSE IF f.completionRate.n > 30 THEN "good"
                                        ELSE "needs_focus")
                                  ELSE "good",
                                  IF JsTruthy(f.mindfulness) THEN f.mindfulness.s
                                  ELSE "consistent"),
       confidence |-> IF JsTruthy(f.confidence) THEN f.confidence.s ELSE "high"]

\* parseAIAnalysis(aiResponse): an object is taken as parsed, a string is
\* parsed as JSON, anything else and any exception go to
\* extractInsightsManually, whose own exception escapes to the caller.
parseAIAnalysis(aiResponse) ==
  CASE aiResponse.t \in {"obj", "list"} -> analysisFields(aiResponse)
    [] aiResponse.t = "text" ->
         IF ParseJson(aiResponse).t \in {"notjson", "null"}
         THEN \* no JSON block in the text, or parsed.summary of null
              extractInsightsManually(aiResponse)
         ELSE analysisFields(ParseJson(aiResponse))
    [] OTHER -> extractInsightsManually(aiResponse)

\* generateFallbackAnalysis(data)
generateFallbackAnalysis(data) ==
  LET stats == calculateStats(data.goals, data.moods, data.medRuns, data.journalEntries)
      s1 == IF stats.openGoals > 5
            THEN <<StaticText("Focus on completing existing goals before adding new ones")>>
            ELSE <<>>
      s2 == IF stats.avgMood10 < 35
            THEN <<StaticText("Consider mood-boosting activities like exercise or social connection")>>
            ELSE <<>>
      s3 == IF stats.totalMedSessions < 5
            THEN <<StaticText("Try incorporating more regular meditation sessions")>>
            ELSE IF stats.totalMedMinutes < 60
            THEN <<StaticText("Consider longer meditation sessions for deeper practice")>>
            ELSE <<>>
      some == s1 \o s2 \o s3
      suggestions == IF Len(some) < 3
                     THEN some \o <<StaticText("Continue your consistent tracking habits"),
                                    StaticText("Set weekly review times to assess progress"),
                                    StaticText("Celebrate small wins along your wellness journey")>>
                     ELSE some
  IN  IF ~stats.ok THEN Threw
      ELSE [ok |-> TRUE,
            summary |-> [t |-> "text", form |-> "analysis", stats |-> stats,
                         moods |-> LengthOf(data.moods)],
            suggestions |-> ListOf(Slice4(suggestions)),
            insights |-> Insights(IF stats.avgMood10 > 35 THEN "positive"
                                  ELSE IF stats.avgMood10 > 25 THEN "stable"
                                  ELSE "needs_attention",
                                  IF stats.completionRate > 60 THEN "excellent"
                                  ELSE IF stats.completionRate > 30 THEN "good"
                                  ELSE "needs_focus",
                                  IF stats.totalMedSessions > 10 THEN "consistent"
                                  ELSE IF stats.totalMedSessions > 3 THEN "developing"
                                  ELSE "beginning"),
            provider |-> "fallback",
            confidence |-> "medium"]

\* generateAIAnalysis, from the result of generateSummary on: the summary is
\* taken as an object, parsed as JSON, or wrapped; every exception ends in
\* generateFallbackAnalysis.
analysisOfResult(result, data) ==
  LET aiPayload ==
        CASE result.summary.t \in {"obj", "list"} -> result.summary
          [] result.summary.t = "text" ->
               IF ParseJson(result.summary).t = "notjson"
               THEN Payload(result.summary, Undef, Undef, Str(result.sentiment))
               ELSE ParseJson(result.summary)
          [] OTHER -> Payload(StaticText("String(result.summary)"), Undef, Undef, Undef)
      parsed == parseAIAnalysis(aiPayload)
  IN  IF result.success /\ JsTruthy(result.summary) /\ parsed.ok
      THEN [ok |-> TRUE,
            summary |-> parsed.summary,
            suggestions |-> parsed.suggestions,
            insights |-> parsed.insights,
            provider |-> result.provider,
            confidence |-> parsed.confidence]
      ELSE generateFallbackAnalysis(data)

\* dashboard.controller generateAIAnalysis: the body of the response.
AnalysisBody(analysis) ==
  [kind |-> "analysis", success |-> TRUE, summary |-> analysis.summary,
   suggestions |-> analysis.suggestions, insights |-> analysis.insights,
   provider |-> analysis.provider]

\* dashboard.controller generateAIAnalysis: the body of its 500 response.
AnalysisErrorBody ==
  [kind |-> "analysis-error", success |-> FALSE,
   summary |-> StaticText("AI analysis is temporarily unavailable. Your progress data shows consistent engagement across goals, mood tracking, and meditation practices."),
   suggestions |-> ListOf(<<StaticText("Continue maintaining your current tracking habits"),
                            StaticText("Consider setting new goals to expand your growth"),
                            StaticText("Review your mood patterns for insights")>>)]

(***************************************************************************)
(* A generateSummary call in flight, and its callers                       *)
(***************************************************************************)
\* What client.chatCompletion resolves to.  A content is the text of
\* choices[0].message.content:
\*   json   - a JSON object o (fields summary, sentiment), bare or inside
\*            Markdown fences or prose without braces;
\*   prose  - text without a JSON block;
\*   broken - a JSON object cut off before its closing brace;
\*   empty  - no content.
JsonContent(summary, sentiment) ==
  [c |-> "json", o |-> [summary |-> summary, sentiment |-> sentiment]]

Completion(content) == [shape |-> "ok", content |-> content]

\* A completion without choices[0].message.
BadShape == [shape |-> "bad"]

GoodWeek == Lit("A good and happy week", {"good", "happy"}, NotJson)

SadWeek == Lit("A bad week, mostly sad", {"bad", "sad"}, NotJson)

QuietWeek == Lit("A quiet week", {}, NotJson)

\* Completions whose summary is a string, or missing.
TextCompletions ==
  { Completion(JsonContent(GoodWeek, Str("positive"))),
    Completion(JsonContent(QuietWeek, Str("Negative"))),
    Completion(JsonContent(SadWeek, Str("mixed"))),
    Completion(JsonContent(QuietWeek, Str("mixed"))),
    Completion(JsonContent(GoodWeek, Undef)),
    Completion(JsonContent(GoodWeek, Num(5))),
    Completion(JsonContent(Undef, Str("positive"))),
    Completion([c |-> "prose", text |-> Lit("Overall a positive week", {"positive"}, NotJson),
                summaryLine |-> FALSE]),
    Completion([c |-> "prose", text |-> Lit("Summary: a negative trend", {"summary", "negative"}, NotJson),
                summaryLine |-> TRUE]),
    Completion([c |-> "broken", text |-> Lit("{\"summary\": \"A good", {"summary", "good"}, NotJson),
                summaryLine |-> TRUE]),
    Completion([c |-> "empty"]),
    BadShape }

ThreeSuggestions ==
  ListOf(<<StaticText("suggestion 1"), StaticText("suggestion 2"), StaticText("suggestion 3")>>)

FiveSuggestions ==
  ListOf(<<StaticText("suggestion 1"), StaticText("suggestion 2"), StaticText("suggestion 3"),
           StaticText("suggestion 4"), StaticText("suggestion 5")>>)

\* Completions whose summary field holds the analysis itself: as an object,
\* as a JSON string, or as another JSON value.
NestedCompletions ==
  { Completion(JsonContent(Payload(QuietWeek, ThreeSuggestions,
                                   Insights("improving", "good", "sporadic"), Undef),
                           Str("positive"))),
    Completion(JsonContent(Payload(QuietWeek, FiveSuggestions, Undef, Undef), Str("neutral"))),
    Completion(JsonContent(Payload(Undef, ListOf(<<>>), Undef, Undef), Undef)),
    Completion(JsonContent(Payload(QuietWeek, StaticText("walk more"), StaticText("great"), Undef),
                           Str("neutral"))),
    Completion(JsonContent(Payload(GoodWeek, Undef, Undef, Undef), Str("mixed"))),
    Completion(JsonContent(Lit("{\"summary\":\"A quiet week\",\"suggestions\":[...5 items]}", {"summary"},
                               Payload(QuietWeek, FiveSuggestions, Undef, Undef)),
                           Str("neutral"))),
    Completion(JsonContent(Lit("42", {}, Num(42)), Str("neutral"))),
    Completion(JsonContent(Lit("null", {}, NullTxt), Str("neutral"))),
    Completion(JsonContent(Lit("\"steady progress\"", {"progress"},
                               Lit("steady progress", {"progress"}, NotJson)),
                           Str("neutral"))),
    Completion(JsonContent(Num(42), Str("neutral"))) }

\* The journal prompt asks for a summary string; the completions with another
\* kind of summary are offered to the other callers only.
CompletionsFor(caller) ==
  IF caller = "journal" THEN TextCompletions ELSE TextCompletions \cup NestedCompletions

NoData == [goals |-> Undef, moods |-> Undef, medRuns |-> Undef, journalEntries |-> Undef]

NewCall(caller, u, id, text, data, retries) ==
  [pc |-> "attempt", caller |-> caller, user |-> u, id |-> id, text |-> text, data |-> data,
   retries |-> retries, maxAttempts |-> maxAttemptsOf(retries), attempt |-> 0,
   attempts |-> 0, lastError |-> NULL, resolved |-> FALSE, completion |-> BadShape,
   result |-> Undef]

ResultBody(result) == [kind |-> "result", result |-> result]

\* The call has returned: what remains known of it is who called with which
\* retries, how many times the remote endpoint was contacted, and the
\* completion that resolved an attempt, if one did.
Returned(c) ==
  [pc |-> "returned", caller |-> c.caller, retries |-> c.retries,
   maxAttempts |-> c.maxAttempts, attempts |-> c.attempts, resolved |-> c.resolved,
   completion |-> c.completion]

\* A stricter caller, which rejects every result that carries an error.
summaryFailedOnAnyError(result) == result.error # NULL

\* generateSummaryForEntry: if (result.error && !result.fallback) throw
summaryFailed(result) == result.error # NULL /\ ~result.fallback

\* generateSummary returns result to its caller, which runs on to its next
\* wait: a direct caller has the result, the dashboard builds its response,
\* journal.service issues the UPDATE.
Return(c, result) ==
  CASE c.caller = "direct" ->
         /\ call' = Returned(c)
         /\ resp' = Response("generateSummary", "adapter", c.user, c.id, 200, ResultBody(result))
    [] c.caller = "dashboard" ->
         /\ call' = Returned(c)
         /\ resp' = IF analysisOfResult(result, c.data).ok
                    THEN Response("analyze", "dashboard", c.user, c.id, 200,
                                  AnalysisBody(analysisOfResult(result, c.data)))
                    ELSE Response("analyze", "dashboard", c.user, c.id, 500, AnalysisErrorBody)
    [] c.caller = "journal" ->
         IF summaryFailed(result)
         THEN /\ call' = Returned(c)
              /\ resp' = Response("summarize", "journal", c.user, c.id, 500,
                                  ErrorBody("Failed to generate AI summary"))
         ELSE /\ call' = [c EXCEPT !.pc = "write", !.result = result]
              /\ UNCHANGED resp

\* generateSummary without the DEEPSEEK_MOCK shortcut.
generateSummaryStartWithoutMock(c) ==
  IF ~env.client THEN Return(c, generateFallbackSummary(c.text, NULL))
  ELSE /\ call' = [c EXCEPT !.attempt = 1, !.attempts = 1]
       /\ UNCHANGED resp

\* generateSummary up to its first remote attempt.
generateSummaryStart(c) ==
  IF env.mock THEN Return(c, MockResult)
  ELSE IF ~env.client THEN Return(c, generateFallbackSummary(c.text, NULL))
  ELSE /\ call' = [c EXCEPT !.attempt = 1, !.attempts = 1]
       /\ UNCHANGED resp

NoCallInFlight == call.pc \in {"idle", "returned"}

\* deepseekService.generateSummary(text, {retries}) called on its own.
DirectCall(text, retries) ==
  /\ NoCallInFlight
  /\ generateSummaryStart(NewCall("direct", 0, 0, text, NoData, retries))
  /\ UNCHANGED <<storeVars, env>>

\* The attempt in flight resolves with a completion.
AttemptResolve(completion) ==
  /\ call.pc = "attempt"
  /\ completion \in CompletionsFor(call.caller)
  /\ Return([call EXCEPT !.resolved = TRUE, !.completion = completion],
            IF completion.shape = "bad"
                  THEN generateFallbackSummary(call.text, ShapeError(call.lastError))
                  ELSE parseResponse(completion.content))
  /\ UNCHANGED <<storeVars, env>>

\* The attempt in flight is rejected, or loses the race against its timeout.
AttemptFail(err) ==
  /\ call.pc = "attempt"
  /\ IF call.attempt < call.maxAttempts
     THEN /\ call' = [call EXCEPT !.pc = "backoff", !.lastError = err]
          /\ UNCHANGED resp
     ELSE Return([call EXCEPT !.lastError = err],
                 generateFallbackSummary(call.text, ShapeError(err)))
  /\ UNCHANGED <<storeVars, env>>

\* The backoff timer fires: the loop issues the next attempt.
BackoffDone ==
  /\ call.pc = "backoff"
  /\ call' = [call EXCEPT !.pc = "attempt", !.attempt = @ + 1, !.attempts = @ + 1]
  /\ UNCHANGED <<storeVars, env, resp>>

\* POST /api/journal/entries/:id/summarize, up to the first wait of
\* generateSummaryForEntry after its read of the entry.
Summarize(u, id) ==
  /\ NoCallInFlight
  /\ IF JournalWhere(id, u) = {}
     THEN /\ resp' = Response("summarize", "journal", u, id, 500, ErrorBody("Entry not found"))
          /\ call' = NoCall
     ELSE generateSummaryStart(NewCall("journal", u, id, journal[id].text, NoData, Undef))
  /\ UNCHANGED <<storeVars, env>>

\* A changes object that also carries the text read before the call.
summaryChangesWithText(c) ==
  [NoJournalBody EXCEPT !.text = c.text,
                        !.summary = c.result.summary,
                        !.sentiment = c.result.sentiment]

\* generateSummaryForEntry: the changes object it hands to updateEntry.
summaryChanges(c) ==
  [NoJournalBody EXCEPT !.summary = c.result.summary,
                        !.sentiment = c.result.sentiment]

\* generateSummaryForEntry from its updateEntry on: the UPDATE, the re-read
\* and the response.  updated is null when the row is gone, and updated.id
\* then throws.
SummarizeWrite ==
  /\ call.pc = "write"
  /\ LET u == call.user
         id == call.id
         changes == summaryChanges(call)
     IN  /\ journal' = [x \in DOMAIN journal |->
                          IF x \in JournalWhere(id, u)
                          THEN updateJournalRow(journal[x], changes) ELSE journal[x]]
         /\ resp' = IF JournalWhere(id, u) = {}
                    THEN Response("summarize", "journal", u, id, 500,
                                  ErrorBody("Cannot read properties of null (reading 'id')"))
                    ELSE Response("summarize", "journal", u, id, 200,
                                  [kind |-> "summarized",
                                   entry |-> sanitizeJournal(id, journal'[id]),
                                   aiProvider |-> "deepseek"])
  /\ call' = Returned(call)
  /\ UNCHANGED <<goals, goalSeq, moods, runs, sessions, authVars, pending, uiVars, env>>

(***************************************************************************)
(* POST /api/dashboard/ai/analyze                                          *)
(***************************************************************************)
GoalDone == [title |-> Lit("Run 5k", {}, NotJson), completed |-> TRUE, priority |-> "high"]

GoalOpen == [title |-> Lit("A tough hike", {"tough"}, NotJson), completed |-> FALSE,
             priority |-> UNDEF]

GoalUrgent == [title |-> Lit("Call mum", {}, NotJson), completed |-> FALSE,
               priority |-> "urgent"]

\* The bodies a client posts: goals, moods and medRuns, each a list or absent.
AnalyzeBody(goalList, moodList, medRuns) ==
  [goals |-> goalList, moods |-> moodList, medRuns |-> medRuns, journalEntries |-> Undef]

AnalyzeBodies ==
  { AnalyzeBody(Undef, ListOf(<<>>), ListOf(<<>>)),
    AnalyzeBody(ListOf(<<>>), ListOf(<<>>), ListOf(<<>>)),
    AnalyzeBody(ListOf(<<GoalDone, GoalOpen>>), ListOf(<<[score |-> 4], [score |-> 5]>>),
                ListOf(<<[actualSeconds |-> 600, sessionTitle |-> "Calm"]>>)),
    AnalyzeBody(ListOf(<<GoalDone, GoalUrgent>>), ListOf(<<[score |-> 2]>>), ListOf(<<>>)) }

\* dashboard.controller generateAIAnalysis with dashboard.service
\* generateAIAnalysis, up to the first wait.
Analyze(u, data) ==
  /\ NoCallInFlight
  /\ IF ~(JsTruthy(data.goals) /\ JsTruthy(data.moods) /\ JsTruthy(data.medRuns))
     THEN /\ resp' = Response("analyze", "dashboard", u, 0, 400, NoBody)
          /\ call' = NoCall
     ELSE IF ~buildAnalysisPrompt(data).ok
     THEN \* the exception is caught and generateFallbackAnalysis runs
          /\ resp' = IF generateFallbackAnalysis(data).ok
                     THEN Response("analyze", "dashboard", u, 0, 200,
                                   AnalysisBody(generateFallbackAnalysis(data)))
                     ELSE Response("analyze", "dashboard", u, 0, 500, AnalysisErrorBody)
          /\ call' = NoCall
     ELSE generateSummaryStart(NewCall("dashboard", u, 0, buildAnalysisPrompt(data).text,
                                       data, Undef))
  /\ UNCHANGED <<storeVars, env>>

(***************************************************************************)
(* The specifications of the AI paths                                      *)
(***************************************************************************)
\* initializeClient: a client exists when HF_TOKEN is set and the constructor
\* does not throw; DEEPSEEK_MOCK is read from the environment.
InitAI ==
  /\ goals = EmptyTable
  /\ goalSeq = 0
  /\ moods = EmptyTable
  /\ journal = EmptyTable
  /\ runs = EmptyTable
  /\ sessions = EmptyTable
  /\ users = Accounts
  /\ reg = NoRegistrations
  /\ pending = NoPending
  /\ client = LoggedOut
  /\ page = ClosedPage
  /\ resp = Response("none", "none", 0, 0, 0, NoBody)
  /\ env \in [mock : BOOLEAN, client : BOOLEAN]
  /\ call = NoCall

Errors == {TimedOut, FetchFailed}

MaxRetries == 2

RetriesInputs == {Undef, Num(-1)} \cup {Num(n) : n \in 0..MaxRetries}

\* The adapter called on its own.
NextAdapter ==
  \/ \E text \in JournalTexts, retries \in RetriesInputs : DirectCall(text, retries)
  \/ \E completion \in TextCompletions \cup NestedCompletions : AttemptResolve(completion)
  \/ \E err \in Errors : AttemptFail(err)
  \/ BackoffDone

SpecAdapter == InitAI /\ [][NextAdapter]_vars

\* An attempt in flight ends: it resolves, is rejected, or its timeout fires.
AttemptEnds ==
  \/ \E completion \in TextCompletions \cup NestedCompletions : AttemptResolve(completion)
  \/ \E err \in Errors : AttemptFail(err)

\* Every attempt races a timer of options.timeoutMs || 8000 ms and every
\* backoff is a timer, so neither wait lasts forever.
SpecAdapterLive ==
  InitAI /\ [][NextAdapter]_vars /\ WF_vars(AttemptEnds) /\ WF_vars(BackoffDone)

JournalCreateBodiesAI ==
  { [NoJournalBody EXCEPT !.id = "id1", !.text = t] : t \in {TextHappy, TextSad} }

\* Journal summarize and dashboard analyze, with the journal requests that
\* may arrive while a call is in flight.
NextAI ==
  \/ \E u \in Users, b \in JournalCreateBodiesAI : JournalCreate(u, b)
  \/ \E u \in Users, id \in StrIds : JournalDelete(u, id)
  \/ \E u \in Users, id \in StrIds : Summarize(u, id)
  \/ SummarizeWrite
  \/ \E data \in AnalyzeBodies : Analyze(1, data)
  \/ \E completion \in TextCompletions \cup NestedCompletions : AttemptResolve(completion)
  \/ \E err \in Errors : AttemptFail(err)
  \/ BackoffDone

SpecAI == InitAI /\ [][NextAI]_vars

(***************************************************************************)
(* Ownership                                                               *)
(***************************************************************************)
\* The row id of the table is owned by somebody other than u.
Foreign(table, id, u) == id \in DOMAIN table /\ table[id].user_id # u

\* The step serves a get, update or delete of store whose id names, before
\* the step, a row that the requesting user does not own.
CrossUserStep(store, table) ==
  /\ resp'.store = store
  /\ resp'.op \in {"get", "update", "delete"}
  /\ Foreign(table, resp'.id, resp'.user)

Kept(table, tableNext, id) == id \in DOMAIN tableNext /\ tableNext[id] = table[id]

NotFoundOrBadDate ==
  \/ resp'.status = 404
  \/ /\ resp'.status = 500
     /\ resp'.op = "update"
     /\ resp'.store \in {"moods", "runs"}
     /\ resp'.body = ErrorBody(InvalidTime)

C2_CompletedIffCompletedAt ==
  (resp.op = "update" /\ resp.store = "goals" /\ resp.status = 200)
    => (goals[resp.id].completed = 1 <=> goals[resp.id].completed_at # NULL)

(***************************************************************************)
(* Mood ranges                                                             *)
(***************************************************************************)
InRange(n) == n \in 1..5

\* C10: every stored mood entry, and every mood entry returned by a create
\* or an update, has score, energy and intensity in 1..5, and a create whose
\* score is out of range is accepted.
C10_MoodValuesInRange ==
  /\ \A id \in DOMAIN moods :
       InRange(moods[id].score) /\ InRange(moods[id].energy) /\ InRange(moods[id].intensity)
  /\ (resp.store = "moods" /\ resp.body.kind = "mood")
       => InRange(resp.body.score) /\ InRange(resp.body.energy) /\ InRange(resp.body.intensity)

(***************************************************************************)
(* The AI paths                                                            *)
(***************************************************************************)
\* The last response is that of a dashboard analysis that went past the
\* controller's validation, and no later call is in flight.
AnalyzeAnswered ==
  resp.op = "analyze" /\ resp.status # 400 /\ NoCallInFlight

\* No remote attempt of the request resolved.
NothingResolved == call.pc = "idle" \/ ~call.resolved

WellShaped(body) ==
  /\ JsTruthy(body.summary)
  /\ body.suggestions.t = "list"
  /\ Len(body.suggestions.items) <= 4
  /\ body.insights.t = "obj"

\* C3: when no remote attempt resolves, generateAIAnalysis returns to the
\* controller (which answers 200) an object with a non-empty summary and
\* between 1 and 4 suggestions, whatever lists it was called with.
C3_UnreachableAnalysisReturns ==
  (AnalyzeAnswered /\ NothingResolved)
    => /\ resp.status = 200
       /\ JsTruthy(resp.body.summary)
       /\ Len(resp.body.suggestions.items) \in 1..4

\* The step is the write of a journal summarize whose entry is still owned
\* by the caller, after a generateSummary call that had to reach the provider
\* and in which no attempt resolved.
FailedSummarizeWrites ==
  /\ ~env.mock
  /\ call.pc = "write"
  /\ call'.pc = "returned"
  /\ ~call.resolved
  /\ JournalWhere(call.id, call.user) # {}

\* The step ends a journal summarize after its last failed attempt without
\* going on to the write.
FailedSummarizeAbandoned ==
  /\ call.pc = "attempt"
  /\ call.caller = "journal"
  /\ call'.pc = "returned"
  /\ ~call'.resolved

\* The step returns a generateSummary call that had to reach the provider and
\* in which no attempt resolved to the dashboard analysis, which answers.
FailedAnalyzeReturns ==
  /\ ~env.mock
  /\ <<call, resp>>' # <<call, resp>>
  /\ resp'.op = "analyze"
  /\ call'.pc = "returned"
  /\ call'.caller = "dashboard"
  /\ ~call'.resolved

\* C4: a failure of the AI provider is never a failed request.  When no
\* remote attempt resolved, journal summarize on an entry the caller owns
\* answers 200 and stores the heuristic summary and sentiment of the text it
\* read, and dashboard analyze answers 200.
C4_ProviderFailureStillSucceeds ==
  [][ /\ FailedSummarizeWrites
        => /\ resp'.op = "summarize" /\ resp'.status = 200
           /\ call.result.fallback
           /\ call.result.sentiment
                = (IF Cardinality(call.text.kw \cap PositiveWords)
                        > Cardinality(call.text.kw \cap NegativeWords) THEN "positive"
                   ELSE IF Cardinality(call.text.kw \cap NegativeWords)
                             > Cardinality(call.text.kw \cap PositiveWords) THEN "negative"
                   ELSE "neutral")
           /\ journal'[call.id].summary = call.result.summary
           /\ journal'[call.id].summary.form = "fallback"
           /\ journal'[call.id].summary.of = call.text
           /\ journal'[call.id].sentiment = call.result.sentiment
           /\ resp'.body.entry.summary = call.result.summary
      /\ ~FailedSummarizeAbandoned
      /\ FailedAnalyzeReturns
        => /\ resp'.status = 200
           /\ resp'.body.provider = "deepseek-fallback"
           /\ JsTruthy(resp'.body.summary) ]_vars

\* A summarize has been answered 200 after both attempts failed, and the
\* entry carries the heuristic summary.
C4_Witness ==
  /\ resp.op = "summarize"
  /\ resp.status = 200
  /\ call.pc = "returned"
  /\ call.caller = "journal"
  /\ call.attempts = 2
  /\ ~call.resolved
  /\ resp.id \in DOMAIN journal
  /\ journal[resp.id].summary.t = "text"
  /\ journal[resp.id].summary.form = "fallback"

\* The attempt count the caller configured.
Configured(retries) == IF retries.t = "num" /\ retries.n >= 0 THEN retries.n + 1 ELSE 2

\* C5, the count: the remote endpoint is never called more often than
\* configured.
AttemptsBounded == call.pc # "idle" => call.attempts <= Configured(call.retries)

\* C5, the steps: no attempt follows one that resolved; a failed attempt is
\* followed by another only while the count is not exhausted; the call ends
\* after the last failed attempt with the heuristic fallback; an attempt is
\* made only at the start of a call or after a backoff.
AttemptSteps ==
  /\ (call.pc = "attempt" /\ call'.pc # "idle" /\ call'.resolved)
       => call'.pc = "returned" /\ call'.attempts = call.attempts
  /\ (call.pc = "attempt" /\ call'.pc = "backoff")
       => call.attempts < Configured(call.retries) /\ call'.attempts = call.attempts
  /\ (call.pc = "attempt" /\ call'.pc = "returned" /\ ~call'.resolved)
       => /\ call.attempts = Configured(call.retries)
          /\ resp'.body.result.provider = "deepseek-fallback"
          /\ resp'.body.result.fallback
  /\ call.pc = "backoff"
       => call'.pc = "attempt" /\ call'.attempts = call.attempts + 1
  /\ call.pc = "returned" => call'.pc \in {"attempt", "returned"}

\* C5: generateSummary calls the remote endpoint at most retries + 1 times
\* (2 times when retries is absent or negative), stops at the first attempt
\* that resolves, goes on after a failure only while attempts are left, ends
\* with the heuristic fallback after the last failure, and always returns.
C5_BoundedRetryReturns ==
  /\ []AttemptsBounded
  /\ [][AttemptSteps]_vars
  /\ (call.pc \in {"attempt", "backoff"}) ~> (call.pc = "returned")

\* A call with retries = 2 has returned the fallback after three failed attempts.
C5_Witness ==
  /\ call.pc = "returned"
  /\ call.retries = Num(2)
  /\ call.attempts = 3
  /\ ~call.resolved
  /\ resp.body.result.provider = "deepseek-fallback"

\* C6: the remote endpoint is contacted only when the mock flag is not set
\* and a client exists; with the mock flag set the canned result is returned,
\* and with no client the heuristic fallback, both after zero attempts.
C6_RemoteOnlyWithClient ==
  /\ call.pc \in {"attempt", "backoff"} => ~env.mock /\ env.client
  /\ call.pc = "returned"
       => /\ call.attempts > 0 => ~env.mock /\ env.client
          /\ env.mock => call.attempts = 0 /\ resp.body.result.provider = "mock"
          /\ (~env.mock /\ ~env.client)
               => /\ call.attempts = 0
                  /\ resp.body.result.provider = "deepseek-fallback"
                  /\ resp.body.result.fallback

\* Without mock flag and without client a call has returned the fallback.
C6_Witness ==
  /\ ~env.mock
  /\ ~env.client
  /\ call.pc = "returned"
  /\ call.attempts = 0
  /\ resp.body.result.provider = "deepseek-fallback"

\* C7: with the mock flag set every dashboard analysis answers with the mock
\* summary text and provider "mock", whatever the input.
C7_MockAnalysisDeterministic ==
  (env.mock /\ AnalyzeAnswered)
    => /\ resp.status = 200
       /\ resp.body.summary = MockSummaryText
       /\ resp.body.provider = "mock"

\* The sentiment sent by the provider in the completion that resolved.
SentField == call.completion.content.o.sentiment

SummaryField == call.completion.content.o.summary

FromSummaryKeywords(summary) ==
  IF summary.t = "text" /\ summary.kw \cap {"positive", "good", "happy"} # {} THEN "positive"
  ELSE IF summary.t = "text" /\ summary.kw \cap {"negative", "bad", "sad"} # {} THEN "negative"
  ELSE "neutral"

ResolvedWithJson ==
  /\ call.pc = "returned"
  /\ call.resolved
  /\ call.completion.shape = "ok"
  /\ call.completion.content.c = "json"

\* C8 (as amended): on every path the sentiment generateSummary returns is one
\* of positive, neutral, negative.  A sentiment string of the provider that
\* is not one of the three is re-derived from the keywords of the summary
\* string, neutral when there is none; a missing sentiment gives neutral
\* whatever the summary says.
C8_SentimentValid ==
  call.pc = "returned"
    => /\ resp.body.result.sentiment \in {"positive", "neutral", "negative"}
       /\ (ResolvedWithJson /\ SentField.t = "str" /\ SentField.s = "mixed"
             /\ SummaryField.t \in {"text", "undef"})
            => resp.body.result.sentiment = FromSummaryKeywords(SummaryField)
       /\ (ResolvedWithJson /\ SentField.t = "undef")
            => resp.body.result.sentiment = "neutral"

\* C8 as stated: an invalid or a missing sentiment is re-derived from the
\* keywords of the summary.
C8_Original ==
  call.pc = "returned"
    => /\ resp.body.result.sentiment \in {"positive", "neutral", "negative"}
       /\ (ResolvedWithJson /\ SummaryField.t \in {"text", "undef"}
             /\ (SentField.t = "undef" \/ (SentField.t = "str" /\ SentField.s = "mixed")))
            => resp.body.result.sentiment = FromSummaryKeywords(SummaryField)

\* The provider sent the sentiment "mixed" with a summary that speaks of a
\* bad, sad week, and the call returned negative.
C8_Witness ==
  /\ ResolvedWithJson
  /\ SentField = Str("mixed")
  /\ SummaryField = SadWeek
  /\ resp.body.result.sentiment = "negative"

\* C9: whatever the provider sent, the dashboard analysis that follows a
\* resolved attempt answers 200 with a summary, a list of at most 4
\* suggestions and an insights object.
C9_AnalysisWellShaped ==
  (AnalyzeAnswered /\ call.pc = "returned" /\ call.resolved)
    => resp.status = 200 /\ WellShaped(resp.body)

(***************************************************************************)
(* The dashboard statistics on their own                                   *)
(***************************************************************************)
\* Longest goal list handed to calculateStats.
MaxGoals == 3

\* Goals as calculateStats reads them: completed and priority.
StatGoals ==
  { [title |-> StaticText("goal"), completed |-> c, priority |-> p] :
      c \in BOOLEAN, p \in {UNDEF, "low", "high", "urgent"} }

SeqsUpTo(S, n) == UNION { [1..k -> S] : k \in 0..n }

\* goals: a list, null or undefined.
StatGoalLists == {Undef, NullTxt} \cup { ListOf(l) : l \in SeqsUpTo(StatGoals, MaxGoals) }

StatMoodLists == {Undef, ListOf(<<>>), ListOf(<<[score |-> 4], [score |-> 5]>>)}

StatsBody(goalList, moodList, stats) ==
  [kind |-> "stats", goals |-> goalList, moods |-> moodList, stats |-> stats]

\* One call of calculateStats on a fresh process; resp holds the arguments
\* and what came back.
CalculateStats(goalList, moodList) ==
  /\ resp.op = "none"
  /\ resp' = Response("calculateStats", "dashboard", 0, 0, 0,
                      StatsBody(goalList, moodList,
                                calculateStats(goalList, moodList, Undef, Undef)))
  /\ UNCHANGED <<storeVars, env, call>>

NextStats ==
  \E goalList \in StatGoalLists, moodList \in StatMoodLists : CalculateStats(goalList, moodList)

SpecStats == InitStore /\ [][NextStats]_vars

StatsReturned == resp.op = "calculateStats" /\ resp.body.stats.ok

\* The completed goals of the argument, counted one by one.
CompletedIn(goalList) ==
  IF goalList.t = "list"
  THEN Cardinality({i \in 1..Len(goalList.items) : goalList.items[i].completed})
  ELSE 0

TotalIn(goalList) == IF goalList.t = "list" THEN Len(goalList.items) ELSE 0

RECURSIVE NewestFirst(_)
NewestFirst(ids) ==
  IF ids = {} THEN <<>>
  ELSE LET top == CHOOSE i \in ids : \A j \in ids : j <= i
       IN  <<top>> \o NewestFirst(ids \ {top})

\* Rows a user's tables hold when the statistics are read.
MaxDetailRows == 54

\* Their ids, the newest row first.
DetailIds == [i \in 1..MaxDetailRows |-> "m" \o ToString(i)]

\* The rows of the tables with string ids, in the order of the result set.
StrIdOrder == <<"id2", "id1">> \o DetailIds

\* LIMIT n
Limit(rows, n) == SubSeq(rows, 1, IF Len(rows) < n THEN Len(rows) ELSE n)

MoodsLimit == 50

RunsLimit == 50

JournalLimit == 20

OwnedIn(table, userId) ==
  LET Owned(id) == id \in DOMAIN table /\ table[id].user_id = userId
  IN  SelectSeq(StrIdOrder, Owned)

\* The tags of a dashboard goal: the column parsed, [] for SQL NULL and
\* for a text JSON.parse rejects.
DashboardTags(column) ==
  IF column.col = "json" /\ IsJsonArray(column.text) THEN JSONParse(column.text) ELSE <<>>

\* getGoals over a SELECT that lacks the WHERE user_id = ? clause.
getGoalsOfEveryone(userId) ==
  LET ids == NewestFirst(DOMAIN goals)
  IN  ListOf([i \in 1..Len(ids) |->
                [id |-> ids[i],
                 title |-> goals[ids[i]].title,
                 completed |-> goals[ids[i]].completed = 1,
                 priority |-> goals[ids[i]].priority,
                 tags |-> DashboardTags(goals[ids[i]].tags)]])

\* dashboard.service getGoals: the rows of goals.service getGoalsByUser, mapped.
getGoals(userId) ==
  LET ids == NewestFirst({id \in DOMAIN goals : goals[id].user_id = userId})
  IN  ListOf([i \in 1..Len(ids) |->
                [id |-> ids[i],
                 title |-> goals[ids[i]].title,
                 completed |-> goals[ids[i]].completed = 1,
                 priority |-> IF Truthy(goals[ids[i]].priority)
                              THEN goals[ids[i]].priority ELSE "medium",
                 tags |-> DashboardTags(goals[ids[i]].tags)]])

\* dashboard.service getMoods: score: Number(mood.score) || 0
getMoods(userId) ==
  LET ids == Limit(OwnedIn(moods, userId), MoodsLimit)
  IN  ListOf([i \in 1..Len(ids) |-> [id |-> ids[i], score |-> moods[ids[i]].score]])

\* dashboard.service getMeditationRuns
getMeditationRuns(userId) ==
  LET ids == Limit(OwnedIn(runs, userId), RunsLimit)
  IN  ListOf([i \in 1..Len(ids) |->
                [id |-> ids[i],
                 sessionTitle |-> runs[ids[i]].session_title,
                 actualSeconds |-> runs[ids[i]].actual_seconds]])

\* dashboard.service getJournalEntries: JSON.parse of the tags runs inside
\* rows.map with nothing around it, so one text it rejects throws out of the
\* map into the catch block, which returns [].
getJournalEntries(userId) ==
  LET ids == Limit(OwnedIn(journal, userId), JournalLimit)
  IN  IF \E i \in 1..Len(ids) :
           journal[ids[i]].tags.col = "json" /\ ~IsJsonArray(journal[ids[i]].tags.text)
      THEN ListOf(<<>>)
      ELSE
      ListOf([i \in 1..Len(ids) |->
                [id |-> ids[i],
                 text |-> journal[ids[i]].text,
                 tags |-> DashboardTags(journal[ids[i]].tags),
                 summary |-> journal[ids[i]].summary,
                 sentiment |-> journal[ids[i]].sentiment]])

\* dashboard.service getDashboardOverview
getDashboardOverview(userId) ==
  [kind |-> "overview",
   goals |-> getGoals(userId),
   moods |-> getMoods(userId),
   medRuns |-> getMeditationRuns(userId),
   journalEntries |-> getJournalEntries(userId),
   stats |-> calculateStats(getGoals(userId), getMoods(userId),
                            getMeditationRuns(userId), getJournalEntries(userId))]

\* GET /api/dashboard/overview
Overview(u) ==
  /\ resp' = IF getDashboardOverview(u).stats.ok
             THEN Response("overview", "dashboard", u, 0, 200, getDashboardOverview(u))
             ELSE Response("overview", "dashboard", u, 0, 500,
                           ErrorBody("Failed to fetch dashboard data"))
  /\ UNCHANGED <<storeVars, env, call>>

\* The goals store with the dashboard overview.
NextDashboard ==
  \/ NextGoals
  \/ \E u \in Users : Overview(u)

SpecDashboard == InitStore /\ [][NextDashboard]_vars

OwnGoals(u) == {id \in DOMAIN goals : goals[id].user_id = u}

\* C12: whatever goal requests came before, the overview of a user reports
\* as totalGoals the number of goals the user owns now and as completedGoals
\* the number of those whose completed flag is set, with the completion rate
\* of the two; the goals of other users are not counted.
C12_OverviewCountsOwnGoals ==
  resp.op = "overview"
    => /\ resp.status = 200
       /\ resp.body.stats.totalGoals = Cardinality(OwnGoals(resp.user))
       /\ resp.body.stats.completedGoals
            = Cardinality({id \in OwnGoals(resp.user) : goals[id].completed = 1})
       /\ resp.body.stats.openGoals
            = Cardinality({id \in OwnGoals(resp.user) : goals[id].completed = 0})
       /\ (Cardinality(OwnGoals(resp.user)) = 1
             /\ \A id \in OwnGoals(resp.user) : goals[id].completed = 1)
            => resp.body.stats.completionRate = 100

\* The user owns one goal, marked completed by an update, the other user owns
\* an open one, and the overview says 1 of 1, 100 percent.
C12_Witness ==
  /\ resp.op = "overview"
  /\ Cardinality(OwnGoals(resp.user)) = 1
  /\ \E id \in DOMAIN goals : goals[id].user_id # resp.user /\ goals[id].completed = 0
  /\ resp.body.stats.totalGoals = 1
  /\ resp.body.stats.completedGoals = 1
  /\ resp.body.stats.completionRate = 100

(***************************************************************************)
(* Goal tags                                                               *)
(***************************************************************************)
\* Longest tag list of a request.
MaxTags == 2

TagLists == SeqsUpTo({"a", "b"}, MaxTags)

TagCreateBodies ==
  { [NoGoalBody EXCEPT !.title = "Run 5k", !.tags = t] :
      t \in {NoTags} \cup { TagList(l) : l \in TagLists } }

TagUpdateBodies ==
  { [NoGoalBody EXCEPT !.tags = TagList(l)] : l \in TagLists }
    \cup { [NoGoalBody EXCEPT !.title = "Run 10k"] }

\* goals.controller list: the caller's rows, newest first, tags parsed.
listGoals(userId) ==
  LET ids == NewestFirst({id \in DOMAIN goals : goals[id].user_id = userId})
  IN  [kind |-> "goals",
       rows |-> [i \in 1..Len(ids) |-> [id |-> ids[i], goal |-> GoalView(goals[ids[i]]).row]]]

\* GET /api/goals
GoalList(u) ==
  /\ resp' = Response("list", "goals", u, 0, 200, listGoals(u))
  /\ UNCHANGED <<storeVars, env, call>>

\* The goals store with tag lists in the requests.
NextTags ==
  \/ \E u \in Users, b \in TagCreateBodies : GoalCreate(u, b)
  \/ \E u \in Users, id \in GoalIds, b \in TagUpdateBodies : GoalUpdate(u, id, b)
  \/ \E u \in Users, id \in GoalIds : GoalGet(u, id)
  \/ \E u \in Users : GoalList(u)
  \/ \E u \in Users, id \in GoalIds : GoalDelete(u, id)

SpecTags == InitStore /\ [][NextTags]_vars

\* The tags of a tag list l as the three reads give them once the step that
\* wrote goal id is done: the response of the write, a get by id, the list.
ReadBackIs(u, id, l) ==
  /\ resp'.body.row.tags = TagList(l)
  /\ GoalView(goals'[id]).row.tags = TagList(l)
  /\ \E i \in 1..Len(NewestFirst({x \in DOMAIN goals' : goals'[x].user_id = u})) :
       LET x == NewestFirst({y \in DOMAIN goals' : goals'[y].user_id = u})[i]
       IN  x = id /\ parseTagsValue(goals'[x].tags) = TagList(l)

\* C13: a goal created or updated with a list of tag strings, the empty list
\* included, is answered and read back (by id and in the list) with the same
\* tags in the same order.
C13_TagsRoundTrip ==
  [][ /\ (resp'.op = "create" /\ resp'.store = "goals" /\ resp'.status = 201)
           => \A b \in TagCreateBodies :
                (b.tags # NoTags /\ GoalCreate(resp'.user, b))
                  => ReadBackIs(resp'.user, resp'.id, b.tags.l)
      /\ (resp'.op = "update" /\ resp'.store = "goals" /\ resp'.status = 200)
           => \A b \in TagUpdateBodies :
                (b.tags # NoTags /\ GoalUpdate(resp'.user, resp'.id, b))
                  => ReadBackIs(resp'.user, resp'.id, b.tags.l) ]_vars

\* A get by id answers the tags b, a on a goal whose stored text is that
\* list's, and the other goal holds the empty list.
C13_Witness ==
  /\ resp.op = "get"
  /\ resp.status = 200
  /\ resp.body.row.tags = TagList(<<"b", "a">>)
  /\ goals[resp.id].tags = [col |-> "json", text |-> JsonText(<<"b", "a">>)]
  /\ \E id \in DOMAIN goals : goals[id].tags = JSONStringify(<<>>)

(***************************************************************************)
(* Reads of tables as they are found.  The rows may have been written by   *)
(* another client of the database, into a tags column that holds text: a   *)
(* JSON array, or text that JSON.parse rejects.                            *)
(***************************************************************************)
Word(s) == [k |-> "word", v |-> s]

\* The text ["a",  cut off after the comma
CutOffText == <<Punct("["), Quoted("a"), Punct(",")>>

\* The text work,health
PlainText == <<Word("work"), Punct(","), Word("health")>>

MalformedColumns == {[col |-> "json", text |-> CutOffText], [col |-> "json", text |-> PlainText]}

FoundColumns == {NullJson, JSONStringify(<<"a", "b">>)} \cup MalformedColumns

Malformed(column) == column.col = "json" /\ ~IsJsonArray(column.text)

FoundGoalRows ==
  { [createGoalRow(u, [NoGoalBody EXCEPT !.title = "Run 5k"]) EXCEPT !.tags = c] :
      u \in Users, c \in FoundColumns }

FoundMoodRows ==
  { [createMoodRow(u, [NoMoodBody EXCEPT !.score = Num(3),
                                         !.date = "2025-10-27T16:38:42.277Z"])
       EXCEPT !.tags = c] : u \in Users, c \in FoundColumns }

FoundJournalRows ==
  { [createJournalRow(u, [NoJournalBody EXCEPT !.text = TextPlain]) EXCEPT !.tags = c] :
      u \in Users, c \in FoundColumns }

TablesOver(ids, rows) == UNION { [d -> rows] : d \in SUBSET ids }

InitReads ==
  /\ goals \in TablesOver(GoalIds, FoundGoalRows)
  /\ goalSeq = MaxGoalId
  /\ moods \in TablesOver(StrIds, FoundMoodRows)
  /\ journal \in TablesOver(StrIds, FoundJournalRows)
  /\ runs = EmptyTable
  /\ sessions = EmptyTable
  /\ users = Accounts
  /\ reg = NoRegistrations
  /\ pending = NoPending
  /\ client = LoggedOut
  /\ page = ClosedPage
  /\ RowCount <= MaxRows
  /\ resp = Response("none", "none", 0, 0, 0, NoBody)
  /\ env = [mock |-> FALSE, client |-> FALSE]
  /\ call = NoCall

\* mood.service listEntries, journal.service listEntries: rows.map(sanitizeEntry)
listMoods(userId) ==
  LET ids == OwnedIn(moods, userId)
  IN  [kind |-> "entries", rows |-> [i \in 1..Len(ids) |-> sanitizeMood(ids[i], moods[ids[i]])]]

listJournal(userId) ==
  LET ids == OwnedIn(journal, userId)
  IN  [kind |-> "entries",
       rows |-> [i \in 1..Len(ids) |-> sanitizeJournal(ids[i], journal[ids[i]])]]

\* GET /api/mood/entries
MoodList(u) ==
  /\ resp' = Response("list", "moods", u, 0, 200, listMoods(u))
  /\ UNCHANGED <<storeVars, env, call>>

\* GET /api/journal/entries
JournalList(u) ==
  /\ resp' = Response("list", "journal", u, 0, 200, listJournal(u))
  /\ UNCHANGED <<storeVars, env, call>>

NextReads ==
  \/ \E u \in Users, id \in GoalIds : GoalGet(u, id)
  \/ \E u \in Users : GoalList(u)
  \/ \E u \in Users, id \in StrIds : MoodGet(u, id)
  \/ \E u \in Users : MoodList(u)
  \/ \E u \in Users, id \in StrIds : JournalGet(u, id)
  \/ \E u \in Users : JournalList(u)
  \/ \E u \in Users : Overview(u)

SpecReads == InitReads /\ [][NextReads]_vars

OwnRows(table, u) == {id \in DOMAIN table : table[id].user_id = u}

NoTagsList == <<>>

\* The row of the list that stands for id carries the empty tag list when the
\* stored tags of id are malformed.
EmptyWhereMalformed(table, rows) ==
  \A i \in 1..Len(rows) :
    Malformed(table[rows[i].id].tags) => rows[i].tags = NoTagsList

GoalUpdateBodiesWide ==
  { NoGoalBody,
    [NoGoalBody EXCEPT !.completed = "true"],
    [NoGoalBody EXCEPT !.title = "Run 10k", !.priority = "low"],
    [NoGoalBody EXCEPT !.priority = "urgent"] }

MoodUpdateBodiesWide ==
  { NoMoodBody,
    [NoMoodBody EXCEPT !.score = Num(7)],
    [NoMoodBody EXCEPT !.date = "yesterday"],
    [NoMoodBody EXCEPT !.note = "slept well", !.tags = TagList(<<"a">>)] }

JournalUpdateBodiesWide ==
  { NoJournalBody,
    [NoJournalBody EXCEPT !.mood = "meh"],
    [NoJournalBody EXCEPT !.sentiment = "mixed"],
    [NoJournalBody EXCEPT !.text = TextHappy, !.tags = TagList(<<"a">>)] }

NextUpdates ==
  \/ \E u \in Users : GoalCreate(u, [NoGoalBody EXCEPT !.title = "Run 5k"])
  \/ \E u \in Users, id \in GoalIds, b \in GoalUpdateBodiesWide : GoalUpdate(u, id, b)
  \/ \E u \in Users :
       MoodCreate(u, [NoMoodBody EXCEPT !.score = Num(3), !.date = "2025-10-27T16:38:42.277Z"])
  \/ \E u \in Users, id \in StrIds, b \in MoodUpdateBodiesWide : MoodUpdate(u, id, b)
  \/ \E u \in Users : JournalCreate(u, [NoJournalBody EXCEPT !.text = TextPlain])
  \/ \E u \in Users, id \in StrIds, b \in JournalUpdateBodiesWide : JournalUpdate(u, id, b)

SpecUpdates == InitStore /\ [][NextUpdates]_vars

\* The fields of a request body that the update recognises as supplied.
SuppliedIn(b) ==
  { f \in DOMAIN b \ {"id"} :
      CASE f = "tags" -> b[f] # NoTags
        [] f \in {"score", "energy", "intensity", "text", "summary"} -> b[f].t # "undef"
        [] OTHER -> b[f] # UNDEF }

\* From table to tableNext at most the fields in supplied of row id changed.
OnlyChanged(table, tableNext, id, supplied) ==
  /\ DOMAIN tableNext = DOMAIN table
  /\ \A x \in DOMAIN table \ {id} : tableNext[x] = table[x]
  /\ id \in DOMAIN table
       => \A f \in DOMAIN table[id] \ supplied : tableNext[id][f] = table[id][f]

\* An update without a recognised field: nothing is written, and the answer
\* is the row as it is, or not-found.
NoWrite(table, tableNext, owned, view) ==
  /\ tableNext = table
  /\ IF owned THEN resp'.status = 200 /\ resp'.body = view ELSE resp'.status = 404

NoOwner == 0

SessionIds == {"s0", "s1", "s2"}

\* ORDER BY custom ASC, created_at DESC: the order of the rows within one
\* value of custom.
SessionIdOrder == <<"s2", "s1", "s0">>

NoSessionBody ==
  [id |-> UNDEF, title |-> UNDEF, minutes |-> Undef, description |-> UNDEF, custom |-> UNDEF]

SessionCreateBodies ==
  {NoSessionBody,
   [NoSessionBody EXCEPT !.title = "Focus"],
   [NoSessionBody EXCEPT !.title = "Focus", !.id = "s0"],
   [NoSessionBody EXCEPT !.title = "Focus", !.id = "s1", !.minutes = Num(20),
                         !.custom = "false"]}

SessionUpdateBodies ==
  {NoSessionBody,
   [NoSessionBody EXCEPT !.title = "Evening calm"],
   [NoSessionBody EXCEPT !.minutes = Num(0)]}

\* A default session, as the seed data of the table provide it.
DefaultSession ==
  [user_id |-> NoOwner, title |-> "Breathing", minutes |-> 5, description |-> NULL,
   custom |-> 0]

SeededSessions == [id \in {"s0"} |-> DefaultSession]

\* WHERE id = ? AND user_id = ?, unrestricted as to the owner
SessionWhereAnyOwner(id, userId) == {x \in DOMAIN sessions : x = id}

\* WHERE id = ? AND user_id = ?
SessionWhere(id, userId) ==
  {x \in DOMAIN sessions : x = id /\ sessions[x].user_id = userId}

\* WHERE user_id IS NULL OR user_id = ?
SessionVisible(userId) ==
  {x \in DOMAIN sessions : sessions[x].user_id \in {NoOwner, userId}}

sanitizeSession(id, row) ==
  [kind |-> "session",
   id |-> id,
   title |-> row.title,
   minutes |-> row.minutes,
   description |-> row.description,
   custom |-> row.custom = 1,
   userId |-> row.user_id]

\* meditation.service listSessions
listSessions(userId) ==
  LET shown(c) == SelectSeq(SessionIdOrder,
                            LAMBDA x : x \in SessionVisible(userId) /\ sessions[x].custom = c)
      ids == shown(0) \o shown(1)
  IN  [kind |-> "sessions",
       rows |-> [i \in 1..Len(ids) |-> sanitizeSession(ids[i], sessions[ids[i]])]]

\* meditation.service createSession: the inserted row.
createSessionRow(userId, b) ==
  [user_id |-> userId,
   title |-> b.title,
   minutes |-> ParseIntOr(b.minutes, 10),
   description |-> IF b.description = UNDEF THEN NULL ELSE b.description,
   custom |-> IF b.custom = UNDEF \/ Truthy(b.custom) THEN 1 ELSE 0]

\* meditation.service updateSession: the SET list, one column per supplied field.
updateSessionRow(row, b) ==
  [row EXCEPT
     !.title = IF b.title # UNDEF THEN b.title ELSE @,
     !.minutes = IF b.minutes.t # "undef" THEN ParseIntOr(b.minutes, 0) ELSE @,
     !.description = IF b.description # UNDEF THEN b.description ELSE @,
     !.custom = IF b.custom # UNDEF THEN (IF Truthy(b.custom) THEN 1 ELSE 0) ELSE @]

SessionFields(b) ==
  b.title # UNDEF \/ b.minutes.t # "undef" \/ b.description # UNDEF \/ b.custom # UNDEF

notSessions == <<goals, goalSeq, moods, journal, runs, authVars, pending, uiVars, env, call>>

\* GET /api/meditation/sessions
SessionList(u) ==
  /\ resp' = Response("list", "sessions", u, UNDEF, 200, listSessions(u))
  /\ UNCHANGED <<storeVars, env, call>>

\* GET /api/meditation/sessions/:id
SessionGet(u, id) ==
  /\ resp' = IF id \in SessionVisible(u)
             THEN Response("get", "sessions", u, id, 200, sanitizeSession(id, sessions[id]))
             ELSE Response("get", "sessions", u, id, 404, NoBody)
  /\ UNCHANGED <<storeVars, env, call>>

\* POST /api/meditation/sessions
SessionCreate(u, b) ==
  /\ IF ~Truthy(b.title)
     THEN /\ resp' = Response("create", "sessions", u, b.id, 400, NoBody)
          /\ UNCHANGED sessions
     ELSE IF b.id \in DOMAIN sessions
     THEN \* duplicate primary key: the INSERT fails
          /\ resp' = Response("create", "sessions", u, b.id, 500, ErrorBody(DuplicateKey))
          /\ UNCHANGED sessions
     ELSE \E sessionId \in SessionIds \ DOMAIN sessions :
            /\ b.id \in {UNDEF, sessionId}
            /\ sessions' = (sessionId :> createSessionRow(u, b)) @@ sessions
            /\ resp' = Response("create", "sessions", u, sessionId, 201,
                                sanitizeSession(sessionId, createSessionRow(u, b)))
  /\ UNCHANGED notSessions

\* PUT /api/meditation/sessions/:id
SessionUpdate(u, id, b) ==
  /\ IF ~SessionFields(b)
     THEN /\ resp' = IF id \in SessionVisible(u)
                     THEN Response("update", "sessions", u, id, 200,
                                   sanitizeSession(id, sessions[id]))
                     ELSE Response("update", "sessions", u, id, 404, NoBody)
          /\ UNCHANGED sessions
     ELSE /\ sessions' = [x \in DOMAIN sessions |->
                            IF x \in SessionWhere(id, u) THEN updateSessionRow(sessions[x], b)
                            ELSE sessions[x]]
          /\ resp' = IF SessionWhere(id, u) = {}
                     THEN Response("update", "sessions", u, id, 404, NoBody)
                     ELSE Response("update", "sessions", u, id, 200,
                                   sanitizeSession(id, sessions'[id]))
  /\ UNCHANGED notSessions

\* DELETE /api/meditation/sessions/:id
SessionDelete(u, id) ==
  /\ sessions' = [x \in DOMAIN sessions \ SessionWhere(id, u) |-> sessions[x]]
  /\ resp' = IF SessionWhere(id, u) = {}
             THEN Response("delete", "sessions", u, id, 404, NoBody)
             ELSE Response("delete", "sessions", u, id, 200, NoBody)
  /\ UNCHANGED notSessions

\* The runs a client records for a session it plays.
RunCreateBodiesSession ==
  {[NoRunBody EXCEPT !.started_at = "2025-10-27T16:38:42.277Z", !.session_id = "s1",
                     !.session_title = "Focus"]}

RunUpdateBodiesSession ==
  {[NoRunBody EXCEPT !.ended_at = "2025-10-28T09:00:00.000Z", !.completed = "true"]}

InitMeditation ==
  /\ goals = EmptyTable
  /\ goalSeq = 0
  /\ moods = EmptyTable
  /\ journal = EmptyTable
  /\ runs = EmptyTable
  /\ sessions = SeededSessions
  /\ users = Accounts
  /\ reg = NoRegistrations
  /\ pending = NoPending
  /\ client = LoggedOut
  /\ page = ClosedPage
  /\ resp = Response("none", "none", 0, 0, 0, NoBody)
  /\ env = [mock |-> FALSE, client |-> FALSE]
  /\ call = NoCall

NextMeditation ==
  \E u \in Users :
    \/ SessionList(u)
    \/ \E id \in SessionIds : SessionGet(u, id)
    \/ \E b \in SessionCreateBodies : SessionCreate(u, b)
    \/ \E id \in SessionIds, b \in SessionUpdateBodies : SessionUpdate(u, id, b)
    \/ \E id \in SessionIds : SessionDelete(u, id)
    \/ \E b \in RunCreateBodiesSession : RunCreate(u, b)
    \/ \E id \in StrIds : RunGet(u, id)
    \/ \E id \in StrIds, b \in RunUpdateBodiesSession : RunUpdate(u, id, b)
    \/ \E id \in StrIds : RunDelete(u, id)

SpecMeditation == InitMeditation /\ [][NextMeditation]_vars

\* The sessions a user may see: the default ones and their own.
VisibleTo(u) == {id \in DOMAIN sessions : sessions[id].user_id \in {NoOwner, u}}

SessionsListedAreVisible ==
  (resp.store = "sessions" /\ resp.op = "list") =>
     /\ {resp.body.rows[i].id : i \in DOMAIN resp.body.rows} = VisibleTo(resp.user)
     /\ \A i \in DOMAIN resp.body.rows :
          resp.body.rows[i] = sanitizeSession(resp.body.rows[i].id,
                                              sessions[resp.body.rows[i].id])

SessionGotIsVisible ==
  (resp.store = "sessions" /\ resp.op = "get") =>
     IF resp.id \in VisibleTo(resp.user)
     THEN resp.status = 200 /\ resp.body = sanitizeSession(resp.id, sessions[resp.id])
     ELSE resp.status = 404

\* A step that changes or removes a session is an update or a delete that
\* the session's owner sent for that session.
SessionChangedByOwner ==
  \A id \in DOMAIN sessions :
    (id \notin DOMAIN sessions' \/ sessions'[id] # sessions[id]) =>
       /\ sessions[id].user_id # NoOwner
       /\ resp'.store = "sessions"
       /\ resp'.op \in {"update", "delete"}
       /\ resp'.id = id
       /\ resp'.user = sessions[id].user_id
       /\ resp'.status = 200

\* C16: listing or fetching sessions as user U returns exactly the sessions
\* whose owner is NULL or U, and only an update or delete sent by the owner of
\* a session changes or removes it; a session without an owner is never
\* changed or removed.
C16_SessionVisibilityAndOwnership ==
  /\ [](SessionsListedAreVisible /\ SessionGotIsVisible)
  /\ [][SessionChangedByOwner]_vars

\* User 2 asked to delete the default session and a session of user 1
\* exists: the request found nothing and both sessions are still there.
C16_Witness ==
  /\ resp.store = "sessions" /\ resp.op = "delete" /\ resp.user = 2
  /\ resp.id = "s0" /\ resp.status = 404
  /\ "s0" \in DOMAIN sessions /\ sessions["s0"].user_id = NoOwner
  /\ \E id \in DOMAIN sessions : sessions[id].user_id = 1

\* An update or a delete of a session, whatever it finds, writes no run.
SessionWriteKeepsRuns ==
  (resp'.store = "sessions" /\ resp'.op \in {"update", "delete"}) => runs' = runs

\* A run changes or goes only by an update or a delete of that run, sent by
\* its owner.
RunChangedByItsOwnRequest ==
  \A id \in DOMAIN runs :
    (id \notin DOMAIN runs' \/ runs'[id] # runs[id]) =>
       /\ resp'.store = "runs"
       /\ resp'.op \in {"update", "delete"}
       /\ resp'.id = id
       /\ resp'.user = runs[id].user_id

\* Every run of this specification was created for session s1 under the
\* title Focus, and no request for a run changes either: whatever happened
\* to the session since, the run is read back with both.
RunReadWithSnapshot ==
  (resp.store = "runs" /\ resp.op = "get") =>
     IF RunWhere(resp.id, resp.user) # {}
     THEN /\ resp.status = 200
          /\ resp.body.sessionId = "s1"
          /\ resp.body.sessionTitle = "Focus"
          /\ resp.body = sanitizeRun(resp.id, runs[resp.id])
     ELSE resp.status = 404

\* C17: once a run has been created, a later update or delete of the session
\* it was started from leaves the run present with the session_id,
\* session_title and other fields it was created with.
C17_RunKeepsSessionSnapshot ==
  /\ []RunReadWithSnapshot
  /\ [][SessionWriteKeepsRuns /\ RunChangedByItsOwnRequest]_vars

\* Session s1 has just been deleted by its owner while a run started from it
\* exists.
C17_Witness ==
  /\ resp.store = "sessions" /\ resp.op = "delete" /\ resp.status = 200 /\ resp.id = "s1"
  /\ "s1" \notin DOMAIN sessions
  /\ \E id \in DOMAIN runs : runs[id].session_id = "s1" /\ runs[id].session_title = "Focus"

(***************************************************************************)
(* Authentication.  A token is what jwt.verify sees of it: whether it      *)
(* parses, which secret signed it, whether it has expired and the user id  *)
(* of its payload.                                                         *)
(***************************************************************************)
NoToken == [t |-> "none"]

\* The token of the header "Bearer " with nothing after the space.
EmptyToken == [t |-> "empty"]

\* A string that is not a JSON Web Token.
Garbage == [t |-> "garbage"]

Jwt(sig, expired, id) == [t |-> "jwt", sig |-> sig, expired |-> expired, id |-> id]

Tokens ==
  {Garbage, Jwt("server", TRUE, 1), Jwt("other", FALSE, 1)}
    \cup {Jwt("server", FALSE, u) : u \in Users}

NoHeader == [scheme |-> "none", token |-> NoToken]

\* The Authorization headers a client sends.
AuthHeaders ==
  {NoHeader, [scheme |-> "Basic", token |-> Garbage], [scheme |-> "Bearer", token |-> EmptyToken]}
    \cup {[scheme |-> "Bearer", token |-> tok] : tok \in Tokens}

\* A request: its Authorization header and the token of its Cookie header.
CookieTokens == {NoToken, Garbage, Jwt("server", FALSE, 1)}

Requests == [authorization : AuthHeaders, cookie : CookieTokens]

\* The middleware that index.js mounts before the routes.
AppMiddleware == {"cors", "express.json", "logger"}

\* req.cookies: set by a cookie parser, undefined without one.
reqCookies(request) ==
  IF "cookieParser" \in AppMiddleware
  THEN [defined |-> TRUE, token |-> request.cookie]
  ELSE [defined |-> FALSE, token |-> NoToken]

\* auth.middleware: the token taken from the request.
tokenOf(request) ==
  IF request.authorization.scheme = "Bearer"
  THEN request.authorization.token
  ELSE IF reqCookies(request).defined /\ reqCookies(request).token # NoToken
  THEN reqCookies(request).token
  ELSE NoToken

\* jwt.verify without the check of the signature (jwt.decode)
jwtDecode(tok) == tok.t = "jwt" /\ ~tok.expired

\* jwt.verify(token, secret) returns the payload rather than throws.
jwtVerify(tok) == tok.t = "jwt" /\ tok.sig = "server" /\ ~tok.expired

\* authService.findUserById
findUserById(id) == IF id \in DOMAIN users THEN {id} ELSE {}

Unauthorized(message) == [status |-> 401, message |-> message, user |-> 0]

\* The auth middleware: 401, or next() with req.user.
auth(request) ==
  LET token == tokenOf(request)
  IN  IF token \in {NoToken, EmptyToken} THEN Unauthorized("Missing auth token")
      ELSE IF ~jwtVerify(token) THEN Unauthorized("Unauthorized")
      ELSE IF findUserById(token.id) = {} THEN Unauthorized("Invalid token")
      ELSE [status |-> 200, message |-> "next", user |-> token.id]

sanitizeUser(id, user) == [kind |-> "user", id |-> id, name |-> user.name, email |-> user.email]

\* GET /api/auth/me
Me(u) ==
  /\ resp' = IF findUserById(u) = {}
             THEN Response("get", "users", u, u, 404, NoBody)
             ELSE Response("get", "users", u, u, 200, sanitizeUser(u, users[u]))
  /\ UNCHANGED <<storeVars, env, call>>

\* The handlers behind the auth middleware, run for req.user.id.
Handler(u) ==
  \/ Me(u)
  \/ GoalList(u)
  \/ \E b \in GoalCreateBodiesStore : GoalCreate(u, b)
  \/ \E id \in GoalIds : GoalDelete(u, id)
  \/ MoodList(u)
  \/ JournalList(u)
  \/ SessionList(u)
  \/ \E id \in StrIds : RunGet(u, id)
  \/ Overview(u)

\* The middleware answers 401 and the handler is not called.
Reject(request) ==
  /\ auth(request).status = 401
  /\ resp' = Response("auth", "none", 0, 0, 401, ErrorBody(auth(request).message))
  /\ UNCHANGED <<storeVars, env, call>>

\* The middleware calls next() and the handler runs for the user it loaded.
Accept(request) ==
  /\ auth(request).status = 200
  /\ Handler(auth(request).user)

\* A request to a protected route.
Protected(request) == Reject(request) \/ Accept(request)

\* The users table as it is found: an account may have been removed since
\* its token was signed.
InitAuth ==
  /\ goals = EmptyTable
  /\ goalSeq = 0
  /\ moods = EmptyTable
  /\ journal = EmptyTable
  /\ runs = EmptyTable
  /\ sessions = SeededSessions
  /\ users \in {[u \in present |-> Accounts[u]] : present \in SUBSET Users}
  /\ reg = NoRegistrations
  /\ pending = NoPending
  /\ client = LoggedOut
  /\ page = ClosedPage
  /\ resp = Response("none", "none", 0, 0, 0, NoBody)
  /\ env = [mock |-> FALSE, client |-> FALSE]
  /\ call = NoCall

NextAuth ==
  \/ \E request \in Requests : Reject(request)
  \/ \E request \in Requests : Accept(request)

SpecAuth == InitAuth /\ [][NextAuth]_vars

\* The tokens a request carries, in its header or in its cookie.
Presented(request) ==
  {tok \in {request.authorization.token, request.cookie} :
     tok = request.cookie \/ request.authorization.scheme = "Bearer"}

\* A token signed by the server, not expired, whose user exists.
ValidToken(tok) ==
  tok.t = "jwt" /\ tok.sig = "server" /\ ~tok.expired /\ tok.id \in DOMAIN users

RejectedUntouched ==
  \A request \in Requests :
    ((\A tok \in Presented(request) : ~ValidToken(tok)) /\ Protected(request)) =>
       /\ resp'.status = 401
       /\ resp'.body.kind = "error"
       /\ storeVars' = storeVars

\* The middleware lets a request pass only as a user whom a valid token of
\* the request names, and the handler answers for the user it was called for.
HandlerRunsForVerifiedUser ==
  /\ \A request \in Requests :
       auth(request).status = 200 =>
         \E tok \in Presented(request) : ValidToken(tok) /\ tok.id = auth(request).user
  /\ \A u \in Users : (resp'.op # "auth" /\ resp'.user # u) => ~Handler(u)

\* C18: on a protected route a request without a token, with a malformed or
\* expired token, with a token signed with another secret, or with a token
\* whose user no longer exists is answered 401 and no table is read into the
\* answer or written; a handler runs only for an existing user whom a signed,
\* unexpired token of the request names.
C18_ProtectedRoutesRequireAuth ==
  [][RejectedUntouched /\ HandlerRunsForVerifiedUser]_vars

\* A request with a well-signed, unexpired token of user 2 was answered 401
\* because user 2 no longer exists, while goals of user 1 are stored.
C18_Witness ==
  /\ resp.op = "auth" /\ resp.status = 401 /\ resp.body = ErrorBody("Invalid token")
  /\ 2 \notin DOMAIN users
  /\ \E id \in DOMAIN goals : goals[id].user_id = 1

\* The step answers the request as the bearer of tok: the handler runs for
\* the user of a valid token, any other token is answered 401.
AuthenticatedAs(tok) ==
  IF ValidToken(tok)
  THEN resp'.op # "auth" /\ resp'.user = tok.id
  ELSE resp'.op = "auth" /\ resp'.status = 401

BearerDecides ==
  \A request \in Requests :
    (request.authorization.scheme = "Bearer" /\ Protected(request)) =>
       AuthenticatedAs(request.authorization.token)

CookieAloneDecides ==
  \A request \in Requests :
    (request.authorization.scheme = "none" /\ request.cookie # NoToken
       /\ Protected(request)) =>
       AuthenticatedAs(request.cookie)

\* C19: a request that carries its token only in the cookie named token is
\* authenticated as if it carried it as a Bearer header; when a Bearer header
\* is present its token is the one used, so an invalid Bearer token is
\* answered 401 even beside a valid cookie.
C19_TokenFromCookieOrBearer == [][BearerDecides /\ CookieAloneDecides]_vars

(***************************************************************************)
(* Registration.  register awaits findUserByEmail, then createUser: the    *)
(* two statements of one request can have those of another between them.   *)
(***************************************************************************)
\* The register requests that can be in progress at once.
RegIds == {"r1", "r2"}

RegisterBodies ==
  [name : {"Cat"}, email : Emails \cup {"cat@example.org"}, password : {"secret"}]
    \cup {[name |-> UNDEF, email |-> "cat@example.org", password |-> "secret"]}

\* The error of an INSERT that breaks the unique key of users.email.
DuplicateEmail == "Duplicate entry for key users.email"

\* SELECT * FROM users WHERE email = ?
findUserByEmail(email) == {id \in DOMAIN users : users[id].email = email}

\* result.insertId: the next value of the AUTO_INCREMENT id.
insertId == 1 + Cardinality(DOMAIN users)

notUsers == <<goals, goalSeq, moods, journal, runs, sessions, pending, uiVars, env, call>>

\* POST /api/auth/register, up to its first query.
RegisterStart(r, b) ==
  /\ r \notin DOMAIN reg
  /\ IF ~Truthy(b.name) \/ ~Truthy(b.email) \/ ~Truthy(b.password)
     THEN /\ resp' = Response("register", "users", 0, r, 400, ErrorBody("Missing fields"))
          /\ UNCHANGED reg
     ELSE /\ reg' = (r :> [pc |-> "find", body |-> b]) @@ reg
          /\ UNCHANGED resp
  /\ UNCHANGED <<users, notUsers>>

\* register: findUserByEmail has answered.
RegisterFind(r) ==
  /\ r \in DOMAIN reg
  /\ reg[r].pc = "find"
  /\ IF findUserByEmail(reg[r].body.email) # {}
     THEN /\ resp' = Response("register", "users", 0, r, 409,
                              ErrorBody("Email already in use"))
          /\ reg' = Without(reg, r)
     ELSE /\ reg' = [reg EXCEPT ![r].pc = "create"]
          /\ UNCHANGED resp
  /\ UNCHANGED <<users, notUsers>>

\* register: createUser has run its INSERT, and the answer is sent.
RegisterCreate(r) ==
  /\ r \in DOMAIN reg
  /\ reg[r].pc = "create"
  /\ IF findUserByEmail(reg[r].body.email) # {}
     THEN \* the unique key of email rejects the row: the catch block answers
          /\ resp' = Response("register", "users", 0, r, 500, ErrorBody(DuplicateEmail))
          /\ UNCHANGED users
     ELSE /\ users' = (insertId :> Account(reg[r].body.name, reg[r].body.email,
                                           reg[r].body.password)) @@ users
          /\ resp' = Response("register", "users", insertId, r, 201,
                              [kind |-> "registered",
                               token |-> Jwt("server", FALSE, insertId),
                               user |-> sanitizeUser(insertId, users'[insertId])])
  /\ reg' = Without(reg, r)
  /\ UNCHANGED notUsers

NextRegister ==
  \/ \E r \in RegIds, b \in RegisterBodies : RegisterStart(r, b)
  \/ \E r \in RegIds : RegisterFind(r)
  \/ \E r \in RegIds : RegisterCreate(r)

SpecRegister == InitStore /\ [][NextRegister]_vars

OneUserPerEmail ==
  \A a, b \in DOMAIN users : users[a].email = users[b].email => a = b

\* A register request that is answered while its email is taken gets 409
\* and adds no user; one whose email is free gets 201 and adds its user.
RegisterAnswered ==
  \A r \in DOMAIN reg :
    r \notin DOMAIN reg' =>
      IF findUserByEmail(reg[r].body.email) # {}
      THEN resp'.status = 409 /\ users' = users
      ELSE /\ resp'.status = 201
           /\ resp'.body.token.id = resp'.user
           /\ \E id \in DOMAIN users' \ DOMAIN users :
                /\ users'[id].email = reg[r].body.email
                /\ DOMAIN users' = DOMAIN users \cup {id}

\* C20: a registration whose email is taken answers 409 and creates no
\* user, so no two users share an email; of two interleaved registrations of
\* one new email one is answered 201 with a token and the other 409.
C20_OneUserPerEmail == []OneUserPerEmail /\ [][RegisterAnswered]_vars

(***************************************************************************)
(* Login                                                                   *)
(***************************************************************************)
\* The passwords of a login body: a string, a JSON number, or none.
LoginPasswords == {Undef, Str("secret"), Str("wrong"), Num(123456)}

LoginBodies == [email : Emails \cup {"cat@example.org", UNDEF}, password : LoginPasswords]

\* The error bcrypt.compare rejects with when the password is no string.
IllegalArguments == "Illegal arguments: number, string"

\* bcrypt.compare(plain, hash) rejects instead of answering.
bcryptCompareThrows(plain) == plain.t # "str"

\* authService.verifyPassword: bcrypt.compare(plain, user.password_hash)
verifyPassword(user, plain) == user.password_hash = bcryptHash(plain.s)

\* rows[0] of findUserByEmail
FirstUser(email) == CHOOSE id \in findUserByEmail(email) : \A x \in findUserByEmail(email) : id <= x

\* POST /api/auth/login
Login(b) ==
  /\ resp' =
       IF ~Truthy(b.email) \/ NumFalsy(b.password)
       THEN Response("login", "users", 0, 0, 400, ErrorBody("Missing fields"))
       ELSE IF findUserByEmail(b.email) = {}
       THEN Response("login", "users", 0, 0, 401, ErrorBody("Invalid credentials"))
       ELSE IF bcryptCompareThrows(b.password)
       THEN Response("login", "users", 0, 0, 500, ErrorBody(IllegalArguments))
       ELSE IF ~verifyPassword(users[FirstUser(b.email)], b.password)
       THEN Response("login", "users", 0, 0, 401, ErrorBody("Invalid credentials"))
       ELSE Response("login", "users", FirstUser(b.email), 0, 200,
                     [kind |-> "login",
                      token |-> Jwt("server", FALSE, FirstUser(b.email)),
                      user |-> sanitizeUser(FirstUser(b.email), users[FirstUser(b.email)])])
  /\ UNCHANGED <<storeVars, env, call>>

NextLogin ==
  \/ NextRegister
  \/ \E b \in LoginBodies : Login(b)

SpecLogin == InitStore /\ [][NextLogin]_vars

\* The password of the body is the one whose hash the user of the email has.
Matches(b) ==
  \E id \in DOMAIN users :
    /\ users[id].email = b.email
    /\ b.password.t = "str"
    /\ users[id].password_hash = bcryptHash(b.password.s)

TokenOnlyOnMatch ==
  \A b \in LoginBodies :
    (resp'.op = "login" /\ resp'.status = 200 /\ Login(b)) =>
       /\ Matches(b)
       /\ users[resp'.body.token.id].email = b.email

\* A login with both fields that does not match is answered 401 with the
\* one body, whether the email is unknown or the password wrong.
MismatchIndistinguishable ==
  \A b \in LoginBodies :
    (resp'.op = "login" /\ Truthy(b.email) /\ ~NumFalsy(b.password)
       /\ ~Matches(b) /\ Login(b)) =>
       resp' = Response("login", "users", 0, 0, 401, ErrorBody("Invalid credentials"))

\* C21: login issues a token only when the email is an existing user's and
\* the password matches that user's hash; an unknown email and a wrong
\* password are both answered 401 with the same body.
C21_LoginIndistinguishable == [][TokenOnlyOnMatch /\ MismatchIndistinguishable]_vars

(***************************************************************************)
(* Requests served while queries of the database fail                      *)
(***************************************************************************)
\* The four reads behind the dashboard overview.
OverviewReads == {"goals", "moods", "medRuns", "journalEntries"}

\* The catch block of a dashboard read: return [] when its query rejected.
CaughtOr(failed, read, rows) == IF read \in failed THEN ListOf(<<>>) ELSE rows

\* dashboard.service getDashboardOverview while the queries in failed reject
getDashboardOverviewFailing(userId, failed) ==
  LET goalRows == CaughtOr(failed, "goals", getGoals(userId))
      moodRows == CaughtOr(failed, "moods", getMoods(userId))
      runRows == CaughtOr(failed, "medRuns", getMeditationRuns(userId))
      journalRows == CaughtOr(failed, "journalEntries", getJournalEntries(userId))
  IN  [kind |-> "overview",
       goals |-> goalRows,
       moods |-> moodRows,
       medRuns |-> runRows,
       journalEntries |-> journalRows,
       stats |-> calculateStats(goalRows, moodRows, runRows, journalRows)]

\* GET /api/dashboard/overview while the queries in failed reject
OverviewFailing(u, failed) ==
  /\ resp' = IF getDashboardOverviewFailing(u, failed).stats.ok
             THEN Response("overview", "dashboard", u, 0, 200,
                           getDashboardOverviewFailing(u, failed))
             ELSE Response("overview", "dashboard", u, 0, 500,
                           ErrorBody("Failed to fetch dashboard data"))
  /\ UNCHANGED <<storeVars, env, call>>

\* The error of a query that the database rejects.
ConnectionLost == "Connection lost: The server closed the connection."

\* GET /api/goals while its query rejects: the controller's catch block.
GoalListFailing(u) ==
  /\ resp' = Response("list", "goals", u, 0, 500, ErrorBody(ConnectionLost))
  /\ UNCHANGED <<storeVars, env, call>>

NextFailing ==
  \/ NextGoals
  \/ \E u \in Users, failed \in SUBSET OverviewReads : OverviewFailing(u, failed)
  \/ \E u \in Users : GoalListFailing(u)

SpecFailing == InitStore /\ [][NextFailing]_vars

\* C22: a database error raised while a request is served is answered 500;
\* an overview one of whose reads failed is answered 500, not 200 with that
\* resource empty.
C22_DatabaseErrorIs500 ==
  [][resp'.op = "overview" =>
       \A failed \in SUBSET OverviewReads \ {{}} :
         OverviewFailing(resp'.user, failed) => resp'.status = 500]_vars

\* C23: an endpoint that targets a row by id answers 404 when the row does
\* not exist or is not the caller's; summarize of a missing or foreign
\* journal entry answers 404, starts no AI call and writes nothing.
C23_MissingRowIs404 ==
  [][\A u \in Users, id \in StrIds :
       (JournalWhere(id, u) = {} /\ Summarize(u, id)) =>
          /\ resp'.status = 404
          /\ call' = NoCall
          /\ journal' = journal]_vars

(***************************************************************************)
(* Create as its two statements: the INSERT, then the re-read of the row   *)
(* by id and owner, with other requests served in between.                 *)
(***************************************************************************)
\* The create requests that can be between their statements at once.
CreateIds == {"c1"}

\* sanitizeEntry / sanitizeRun / sanitizeSession of no row: null
NullEntity == [kind |-> "null"]

MoodCreateBody ==
  [NoMoodBody EXCEPT !.id = "id1", !.score = Num(3), !.date = "2025-10-27T16:38:42.277Z"]

RunCreateBody == [NoRunBody EXCEPT !.started_at = "2025-10-27T16:38:42.277Z"]

SessionCreateBody == [NoSessionBody EXCEPT !.title = "Focus"]

\* The tables and the requests of the other handlers.
notPending == <<goals, goalSeq, moods, journal, runs, sessions, authVars, uiVars, env, call>>

Pending(store, u, id) == [store |-> store, user |-> u, id |-> id]

\* The controller answers a re-read that found nothing with 404.
createdStatusChecked(found) == IF found = {} THEN 404 ELSE 201

\* res.status(201).json({ entry: created }), whatever created is
createdStatus(found) == 201

\* mood createEntry up to the end of its INSERT
MoodInsert(r, u, b) ==
  /\ r \notin DOMAIN pending
  /\ ~NumFalsy(b.score) /\ Truthy(b.date) /\ ToMySQLDateTime(b.date) # InvalidDate
  /\ RowCount < MaxRows
  /\ \E entryId \in StrIds \ DOMAIN moods :
       /\ b.id \in {UNDEF, entryId}
       /\ moods' = (entryId :> createMoodRow(u, b)) @@ moods
       /\ pending' = (r :> Pending("moods", u, entryId)) @@ pending
  /\ UNCHANGED <<goals, goalSeq, journal, runs, sessions, authVars, uiVars, env, call, resp>>

\* createRun up to the end of its INSERT
RunInsert(r, u, b) ==
  /\ r \notin DOMAIN pending
  /\ Truthy(b.started_at) /\ ~RunDateThrows(b)
  /\ RowCount < MaxRows
  /\ \E runId \in StrIds \ DOMAIN runs :
       /\ b.id \in {UNDEF, runId}
       /\ runs' = (runId :> createRunRow(u, b)) @@ runs
       /\ pending' = (r :> Pending("runs", u, runId)) @@ pending
  /\ UNCHANGED <<goals, goalSeq, moods, journal, sessions, authVars, uiVars, env, call, resp>>

\* createSession up to the end of its INSERT
SessionInsert(r, u, b) ==
  /\ r \notin DOMAIN pending
  /\ Truthy(b.title)
  /\ \E sessionId \in SessionIds \ DOMAIN sessions :
       /\ b.id \in {UNDEF, sessionId}
       /\ sessions' = (sessionId :> createSessionRow(u, b)) @@ sessions
       /\ pending' = (r :> Pending("sessions", u, sessionId)) @@ pending
  /\ UNCHANGED <<goals, goalSeq, moods, journal, runs, authVars, uiVars, env, call, resp>>

\* The rows that the re-read of a create finds.
Reread(p) ==
  CASE p.store = "moods" -> MoodWhere(p.id, p.user)
    [] p.store = "runs" -> RunWhere(p.id, p.user)
    [] p.store = "sessions" -> {p.id} \cap SessionVisible(p.user)

\* getEntry / getRun / getSession of the create: the sanitized row, or null.
Created(p) ==
  IF Reread(p) = {} THEN NullEntity
  ELSE CASE p.store = "moods" -> sanitizeMood(p.id, moods[p.id])
         [] p.store = "runs" -> sanitizeRun(p.id, runs[p.id])
         [] p.store = "sessions" -> sanitizeSession(p.id, sessions[p.id])

\* The re-read of a create and its answer.
CreateReread(r) ==
  /\ r \in DOMAIN pending
  /\ resp' = Response("create", pending[r].store, pending[r].user, pending[r].id,
                      createdStatus(Reread(pending[r])), Created(pending[r]))
  /\ pending' = Without(pending, r)
  /\ UNCHANGED notPending

NextCreate ==
  \/ \E r \in CreateIds, u \in Users : MoodInsert(r, u, MoodCreateBody)
  \/ \E r \in CreateIds, u \in Users : RunInsert(r, u, RunCreateBody)
  \/ \E r \in CreateIds, u \in Users : SessionInsert(r, u, SessionCreateBody)
  \/ \E r \in CreateIds : CreateReread(r)
  \/ \E u \in Users, id \in StrIds : MoodDelete(u, id)
  \/ \E u \in Users, id \in StrIds : RunDelete(u, id)
  \/ \E u \in Users, id \in SessionIds : SessionDelete(u, id)
  \/ \E u \in Users, id \in StrIds, b \in RunUpdateBodiesSession : RunUpdate(u, id, b)

SpecCreate == InitMeditation /\ [][NextCreate]_vars

\* The row of a create in progress is in its table.
Present(p) ==
  CASE p.store = "moods" -> p.id \in DOMAIN moods /\ moods[p.id].user_id = p.user
    [] p.store = "runs" -> p.id \in DOMAIN runs /\ runs[p.id].user_id = p.user
    [] p.store = "sessions" -> p.id \in DOMAIN sessions /\ sessions[p.id].user_id = p.user

\* The row of a create in progress is in its table after the step.
PresentNext(p) ==
  CASE p.store = "moods" -> p.id \in DOMAIN moods' /\ moods'[p.id].user_id = p.user
    [] p.store = "runs" -> p.id \in DOMAIN runs' /\ runs'[p.id].user_id = p.user
    [] p.store = "sessions" -> p.id \in DOMAIN sessions' /\ sessions'[p.id].user_id = p.user

\* The row of a create in progress leaves its table only by a delete that
\* its owner sent for it.
GoneOnlyByOwnDelete ==
  \A r \in DOMAIN pending :
    (Present(pending[r]) /\ ~PresentNext(pending[r])) =>
       /\ resp'.op = "delete"
       /\ resp'.store = pending[r].store
       /\ resp'.user = pending[r].user
       /\ resp'.id = pending[r].id

\* The create answers 201: with its row as it is when the row is there, with
\* null when it is gone, and the row is then still gone.
CreateAnswers ==
  \A r \in DOMAIN pending :
    r \notin DOMAIN pending' =>
       /\ resp'.op = "create" /\ resp'.status = 201
       /\ resp'.user = pending[r].user /\ resp'.id = pending[r].id
       /\ IF Present(pending[r])
          THEN resp'.body.kind # "null" /\ resp'.body.id = pending[r].id
          ELSE resp'.body = NullEntity
       /\ PresentNext(pending[r]) = Present(pending[r])

\* C24: a create whose row is deleted by its owner between the INSERT and
\* the re-read completes with 201 and a null entity and leaves the row
\* absent; a create with no such delete in between returns the inserted row.
C24_CreateRereadNotAtomic == [][GoneOnlyByOwnDelete /\ CreateAnswers]_vars

\* A create of a run was answered 201 with null: its row was deleted before
\* the re-read.
C24_Witness ==
  /\ resp.op = "create" /\ resp.store = "runs" /\ resp.status = 201
  /\ resp.body = NullEntity
  /\ RunWhere(resp.id, resp.user) = {}

\* C25: calculateStats returns normally for every list of goals, also an
\* empty or missing one and goals whose priority is missing or none of low,
\* medium and high, and the six counters of goalsByPriority sum to totalGoals.
C25_StatsPartitionGoals ==
  resp.op = "calculateStats" =>
    /\ resp.body.stats.ok
    /\ LET by == resp.body.stats.goalsByPriority
       IN  by["low"].open + by["low"].completed + by["medium"].open + by["medium"].completed
             + by["high"].open + by["high"].completed = resp.body.stats.totalGoals

(***************************************************************************)
(* The browser's auth context: the React state user and token, their       *)
(* copies in localStorage, and the requests that authFetch has sent.       *)
(***************************************************************************)
MaxFetch == 2

\* null of the auth state, and removeItem of localStorage
Nobody == "null"

ClientUsers == {"ann", "bob"}

\* The statuses a response to authFetch carries.
Statuses == {200, 401, 403, 404, 500}

AuthState(user, token, storedUser, storedToken, sent, dirty, last) ==
  [state |-> "open", user |-> user, token |-> token, storedUser |-> storedUser,
   storedToken |-> storedToken, sent |-> sent, dirty |-> dirty, last |-> last]

\* authFetch clears the auth state on this status and on others besides
unauthorizedOrForbidden(status) == status \in {401, 403}

\* if (res.status === 401)
unauthorized(status) == status = 401

\* ProtectedRoute: where a protected route renders.
ProtectedRoute(c) == IF c.user = Nobody THEN "/login" ELSE "children"

\* login(): the response is ok and carries the token and the user.
ClientLogin(u) ==
  /\ client.state = "open"
  /\ client' = [client EXCEPT !.user = u, !.token = u, !.dirty = TRUE, !.last = 0]
  /\ UNCHANGED <<goals, goalSeq, moods, journal, runs, sessions, authVars, pending, page,
                 env, call, resp>>

\* logout()
ClientLogout ==
  /\ client.state = "open"
  /\ client.user # Nobody
  /\ client' = [client EXCEPT !.user = Nobody, !.token = Nobody, !.dirty = TRUE, !.last = 0]
  /\ UNCHANGED <<goals, goalSeq, moods, journal, runs, sessions, authVars, pending, page,
                 env, call, resp>>

\* authFetch up to its await of fetch
AuthFetchSend ==
  /\ client.state = "open"
  /\ client.sent < MaxFetch
  /\ client' = [client EXCEPT !.sent = @ + 1, !.last = 0]
  /\ UNCHANGED <<goals, goalSeq, moods, journal, runs, sessions, authVars, pending, page,
                 env, call, resp>>

\* authFetch from the response on
AuthFetchReceive(status) ==
  /\ client.state = "open"
  /\ client.sent > 0
  /\ client' = IF unauthorized(status)
               THEN [client EXCEPT !.sent = @ - 1, !.last = status, !.user = Nobody,
                                   !.token = Nobody, !.dirty = TRUE]
               ELSE [client EXCEPT !.sent = @ - 1, !.last = status]
  /\ UNCHANGED <<goals, goalSeq, moods, journal, runs, sessions, authVars, pending, page,
                 env, call, resp>>

\* The effect on [user, token]: setItem for a value, removeItem for null.
StorageEffect ==
  /\ client.state = "open"
  /\ client.dirty
  /\ client' = [client EXCEPT !.storedUser = client.user, !.storedToken = client.token,
                              !.dirty = FALSE]
  /\ UNCHANGED <<goals, goalSeq, moods, journal, runs, sessions, authVars, pending, page,
                 env, call, resp>>

\* The provider mounts with what localStorage holds and runs its effect.
InitClient ==
  /\ goals = EmptyTable
  /\ goalSeq = 0
  /\ moods = EmptyTable
  /\ journal = EmptyTable
  /\ runs = EmptyTable
  /\ sessions = EmptyTable
  /\ users = Accounts
  /\ reg = NoRegistrations
  /\ pending = NoPending
  /\ resp = Response("none", "none", 0, 0, 0, NoBody)
  /\ env = [mock |-> FALSE, client |-> FALSE]
  /\ call = NoCall
  /\ \E u \in ClientUsers \cup {Nobody} : client = AuthState(u, u, u, u, 0, TRUE, 0)
  /\ page = ClosedPage

NextClient ==
  \/ \E u \in ClientUsers : ClientLogin(u)
  \/ ClientLogout
  \/ AuthFetchSend
  \/ \E status \in Statuses : AuthFetchReceive(status)
  \/ StorageEffect

\* React runs the effect after every commit that changed user or token.
SpecClient == InitClient /\ [][NextClient]_vars /\ WF_vars(StorageEffect)

\* A response has just been received by authFetch.
Received == client'.sent = client.sent - 1

LoggedOutOn401 ==
  Received =>
    IF client'.last = 401
    THEN client'.user = Nobody /\ client'.token = Nobody
    ELSE client'.user = client.user /\ client'.token = client.token

StorageCleared == client.storedUser = Nobody /\ client.storedToken = Nobody

\* C26: when a request made through authFetch is answered 401, user and
\* token are cleared in the auth state, localStorage follows, and a protected
\* route redirects to /login; any other status leaves user and token alone.
C26_AutoLogoutOn401 ==
  /\ [][LoggedOutOn401]_vars
  /\ [](client.user = Nobody => ProtectedRoute(client) = "/login")
  /\ (client.last = 401) ~> (StorageCleared \/ client.user # Nobody)

\* A logged-in user's request was answered 401: the auth state is cleared
\* and the effect has emptied localStorage.
C26_Witness ==
  /\ client.last = 401 /\ client.user = Nobody /\ client.token = Nobody
  /\ ~client.dirty /\ StorageCleared

\* The row that a request names is the requester's own.
OwnRow(store, id, u) ==
  CASE store = "moods" -> MoodWhere(id, u) # {}
    [] store = "journal" -> JournalWhere(id, u) # {}
    [] store = "runs" -> RunWhere(id, u) # {}
    [] OTHER -> FALSE

\* C27: the responses to a user's own requests do not depend on the rows of
\* other users: a create with a client-chosen id is refused as a duplicate
\* only when the id is that of a row of the requester.
C27_NoninterferenceBetweenUsers ==
  [][(resp'.op = "create" /\ resp'.status = 500 /\ resp'.body = ErrorBody(DuplicateKey))
       => OwnRow(resp'.store, resp'.id, resp'.user)]_vars


(***************************************************************************)
(* Journal summarize beside updates and deletes of the same entry          *)
(***************************************************************************)
JournalUpdateBodiesSummarize ==
  { [NoJournalBody EXCEPT !.text = TextSad],
    [NoJournalBody EXCEPT !.mood = "meh", !.tags = TagList(<<"a">>)] }

\* The journal requests that may be served while a summarize request waits
\* for the model, and the steps of the summarize request itself.
NextSummarize ==
  \/ \E u \in Users : JournalCreate(u, [NoJournalBody EXCEPT !.id = "id1", !.text = TextHappy])
  \/ \E u \in Users, b \in JournalUpdateBodiesSummarize : JournalUpdate(u, "id1", b)
  \/ \E u \in Users : JournalDelete(u, "id1")
  \/ \E u \in Users : Summarize(u, "id1")
  \/ SummarizeWrite
  \/ \E completion \in TextCompletions : AttemptResolve(completion)
  \/ \E err \in Errors : AttemptFail(err)
  \/ BackoffDone

SpecSummarize == InitAI /\ [][NextSummarize]_vars

\* A step of a summarize request: its read, an attempt, a backoff, its write.
SummarizeStep == call' # call \/ resp'.op = "summarize"

\* The row of the entry after the step is the row before it with at most
\* its summary and sentiment replaced.
OnlySummaryAndSentiment(x) ==
  journal'[x] = [journal[x] EXCEPT !.summary = journal'[x].summary,
                                   !.sentiment = journal'[x].sentiment]

MaxStarts == 2

\* PUTs of one run the page sends.
MaxPuts == 2

NoRun == 0

PageRunIds == 1..MaxStarts

NoSession == [id |-> "null", seconds |-> 0]

\* Custom sessions, by their id and minutes * 60: the form accepts any
\* minutes above zero.
PageSessions == {[id |-> "s-a", seconds |-> 2], [id |-> "s-b", seconds |-> 1]}

MaxSeconds == 2

\* startSession: the run it posts and, after the response, puts in history.
NewRun(s) ==
  [sessionId |-> s.id, planned |-> s.seconds, ended |-> FALSE,
   actualSeconds |-> 0, completed |-> FALSE]

\* The component's state: active, running, remaining, currentRunId and
\* history, the create requests and the PUTs in flight; besides them the run
\* posted for the active session, the runs for which the timer reached zero
\* or Stop & Save was pressed, and the PUTs sent per run.
PageState(active, running, remaining, currentRunId, history, creating, saving,
          started, activeRun, due, puts) ==
  [state |-> "open", active |-> active, running |-> running, remaining |-> remaining,
   currentRunId |-> currentRunId, history |-> history, creating |-> creating,
   saving |-> saving, started |-> started, activeRun |-> activeRun, due |-> due,
   puts |-> puts]

notPage == <<goals, goalSeq, moods, journal, runs, sessions, authVars, pending, client,
             env, call, resp>>

\* The timer effect has work to do: React runs it after the render that set
\* running with remaining at zero, before it handles another click.
EffectPending == page.state = "open" /\ page.running /\ page.remaining = 0

\* startSession up to its await of the POST
startSession(s) ==
  /\ page.state = "open"
  /\ ~EffectPending
  /\ page.started < MaxStarts
  /\ page' = [page EXCEPT !.active = s, !.remaining = s.seconds, !.running = TRUE,
                          !.started = @ + 1,
                          !.creating = (page.started + 1 :> NewRun(s)) @@ @,
                          !.activeRun = page.started + 1]
  /\ UNCHANGED notPage

\* startSession from the response of the POST on; a failed request takes the
\* catch branch, which sets the same state.
CreateRunReturns(r) ==
  /\ page.state = "open"
  /\ r \in DOMAIN page.creating
  /\ page' = [page EXCEPT !.history = (r :> page.creating[r]) @@ @,
                          !.currentRunId = r,
                          !.creating = [x \in DOMAIN page.creating \ {r} |-> page.creating[x]]]
  /\ UNCHANGED notPage

\* The interval of the timer effect fires.
Tick ==
  /\ page.state = "open"
  /\ page.running /\ page.remaining > 0
  /\ page' = [page EXCEPT !.remaining = IF @ - 1 > 0 THEN @ - 1 ELSE 0]
  /\ UNCHANGED notPage

\* saveRun's actualSeconds: from the active session and remaining, or from
\* the clock when no session is active.
ActualSeconds ==
  IF page.active # NoSession
  THEN {IF page.active.seconds - page.remaining > 0
        THEN page.active.seconds - page.remaining ELSE 0}
  ELSE 0..MaxSeconds

\* saveRun up to its await of the PUT, after the caller's setRunning(false).
saveRun(autoCompleted, dueRuns) ==
  IF page.currentRunId = NoRun \/ page.currentRunId \notin DOMAIN page.history
  THEN page' = [page EXCEPT !.running = FALSE, !.due = @ \cup dueRuns]
  ELSE /\ page.puts[page.currentRunId] < MaxPuts
       /\ \E actualSeconds \in ActualSeconds :
            page' = [page EXCEPT
                       !.running = FALSE,
                       !.due = @ \cup dueRuns,
                       !.history[page.currentRunId] =
                          [@ EXCEPT !.ended = TRUE,
                                    !.actualSeconds = actualSeconds,
                                    !.completed = autoCompleted \/ page.remaining = 0],
                       !.puts[page.currentRunId] = @ + 1,
                       !.saving[page.currentRunId] = @ + 1]

\* The run posted for the session on screen, if any.
RunOnScreen == IF page.activeRun = NoRun THEN {} ELSE {page.activeRun}

\* The timer effect with running set and remaining at zero.
TimerZero ==
  /\ page.state = "open"
  /\ page.running /\ page.remaining = 0
  /\ saveRun(TRUE, RunOnScreen)
  /\ UNCHANGED notPage

pause ==
  /\ page.state = "open"
  /\ ~EffectPending
  /\ page.active # NoSession /\ page.running
  /\ page' = [page EXCEPT !.running = FALSE]
  /\ UNCHANGED notPage

resume ==
  /\ page.state = "open"
  /\ ~EffectPending
  /\ page.active # NoSession /\ ~page.running
  /\ page' = [page EXCEPT !.running = TRUE]
  /\ UNCHANGED notPage

\* Stop & Save, shown while a session is active.
stopSession ==
  /\ page.state = "open"
  /\ ~EffectPending
  /\ page.active # NoSession
  /\ saveRun(FALSE, RunOnScreen)
  /\ UNCHANGED notPage

\* saveRun from the end of its PUT on.
SaveRunReturns(r) ==
  /\ page.state = "open"
  /\ page.saving[r] > 0
  /\ page' = [page EXCEPT !.saving[r] = @ - 1, !.currentRunId = NoRun,
                          !.active = NoSession, !.remaining = 0, !.activeRun = NoRun]
  /\ UNCHANGED notPage

\* The page mounted for a logged-in user with no session active.
InitPage ==
  /\ goals = EmptyTable
  /\ goalSeq = 0
  /\ moods = EmptyTable
  /\ journal = EmptyTable
  /\ runs = EmptyTable
  /\ sessions = EmptyTable
  /\ users = Accounts
  /\ reg = NoRegistrations
  /\ pending = NoPending
  /\ resp = Response("none", "none", 0, 0, 0, NoBody)
  /\ env = [mock |-> FALSE, client |-> FALSE]
  /\ call = NoCall
  /\ client = AuthState("ann", "ann", "ann", "ann", 0, FALSE, 0)
  /\ page = PageState(NoSession, FALSE, 0, NoRun, EmptyTable, EmptyTable,
                      [r \in PageRunIds |-> 0], 0, NoRun, {}, [r \in PageRunIds |-> 0])

NextPage ==
  \/ \E s \in PageSessions : startSession(s)
  \/ \E r \in PageRunIds : CreateRunReturns(r)
  \/ Tick
  \/ TimerZero
  \/ pause
  \/ resume
  \/ stopSession
  \/ \E r \in PageRunIds : SaveRunReturns(r)

\* Requests are answered or fail, the interval fires and effects run; the
\* user's clicks are under no obligation.
SpecPage ==
  /\ InitPage /\ [][NextPage]_vars
  /\ \A r \in PageRunIds : WF_vars(CreateRunReturns(r)) /\ WF_vars(SaveRunReturns(r))
  /\ WF_vars(Tick)
  /\ WF_vars(TimerZero)

Finalised(r) == r \in DOMAIN page.history /\ page.history[r].ended

\* C29: every run whose timer reached zero or for which Stop & Save was
\* pressed is eventually finalised by saveRun, also when that happens before
\* the create-run request has returned.
C29_RunEventuallyFinalised ==
  \A r \in PageRunIds : (r \in page.due) ~> Finalised(r)


(***************************************************************************)
(* GET /api/dashboard/stats: the statistics of the last 7 days, of the     *)
(* last 30 days and of all time                                            *)
(***************************************************************************)
\* The dates of the rows, as the columns hold them, for a request served on
\* 2025-11-03.
Recent == "2025-10-31 09:00:00"

LastMonth == "2025-10-14 09:00:00"

Older == "2025-09-24 09:00:00"

\* Whole days between the date and the request.
DaysAgo(dt) ==
  CASE dt = Recent -> 3
    [] dt = LastMonth -> 20
    [] OTHER -> 40

\* created_at >= ?, date >= ?, started_at >= ? with the start of a period
\* days before the request.
Since(days, dt) == DaysAgo(dt) <= days

\* How many rows of a table are recent, of last month and older.
MoodCountsInputs ==
  { <<n, m, o>> : n \in {0, 1, MoodsLimit - 1, MoodsLimit + 1}, m \in {0, 2}, o \in {0, 1} }

GoalCountsInputs == { <<n, m, o>> : n \in {0, 1}, m \in {0, 1}, o \in {0, 1} }

\* The date of the row at position i, the newest row first.
DateAt(counts, i) ==
  IF i <= counts[1] THEN Recent
  ELSE IF i <= counts[1] + counts[2] THEN LastMonth ELSE Older

Total(counts) == counts[1] + counts[2] + counts[3]

PositionOf(id) == CHOOSE i \in 1..MaxDetailRows : DetailIds[i] = id

\* The tables of user 1 that hold rows of these counts.
DetailedMoods(counts) ==
  [id \in {DetailIds[i] : i \in 1..Total(counts)} |->
     [createMoodRow(1, NoMoodBody) EXCEPT !.score = (PositionOf(id) % 5) + 1,
                                          !.date = DateAt(counts, PositionOf(id))]]

DetailedRuns(counts) ==
  [id \in {DetailIds[i] : i \in 1..Total(counts)} |->
     [createRunRow(1, NoRunBody) EXCEPT !.actual_seconds = 600,
                                        !.started_at = DateAt(counts, PositionOf(id))]]

DetailedGoals(counts) ==
  [id \in 1..Total(counts) |->
     [created_at |-> DateAt(counts, Total(counts) - id + 1)] @@
     [createGoalRow(1, [NoGoalBody EXCEPT !.title = "Run 5k"]) EXCEPT !.completed = id % 2]]

\* {}: what getStatsForPeriod returns from its catch block.
EmptyObject == [kind |-> "empty"]

\* dashboard.service getStatsForPeriod, for a period of the last days days.
getStatsForPeriod(userId, days) ==
  LET GoalIn(id) == goals[id].user_id = userId /\ Since(days, goals[id].created_at)
      MoodIn(id) == Since(days, moods[id].date)
      RunIn(id) == Since(days, runs[id].started_at)
      goalIds == NewestFirst({id \in DOMAIN goals : GoalIn(id)})
      moodIds == SelectSeq(OwnedIn(moods, userId), MoodIn)
      runIds == SelectSeq(OwnedIn(runs, userId), RunIn)
      normalizedGoals == [i \in 1..Len(goalIds) |->
                            [id |-> goalIds[i],
                             title |-> goals[goalIds[i]].title,
                             completed |-> goals[goalIds[i]].completed = 1,
                             priority |-> IF Truthy(goals[goalIds[i]].priority)
                                          THEN goals[goalIds[i]].priority ELSE "medium"]]
      normalizedMoods == [i \in 1..Len(moodIds) |->
                            [id |-> moodIds[i], score |-> moods[moodIds[i]].score]]
      normalizedMeds == [i \in 1..Len(runIds) |->
                           [id |-> runIds[i],
                            actualSeconds |-> runs[runIds[i]].actual_seconds]]
      stats == calculateStats(ListOf(normalizedGoals), ListOf(normalizedMoods),
                              ListOf(normalizedMeds), ListOf(<<>>))
  IN  IF stats.ok THEN stats ELSE EmptyObject

\* dashboard.service getDetailedStats
getDetailedStats(userId) ==
  LET stats == getDashboardOverview(userId).stats
  IN  IF ~stats.ok THEN Threw
      ELSE [ok |-> TRUE,
            stats |-> stats,
            periods |-> [last7Days |-> getStatsForPeriod(userId, 7),
                         last30Days |-> getStatsForPeriod(userId, 30),
                         allTime |-> stats]]

\* GET /api/dashboard/stats
DetailedStats(u) ==
  /\ resp' = IF getDetailedStats(u).ok
             THEN Response("stats", "dashboard", u, 0, 200,
                           [kind |-> "detailed",
                            stats |-> getDetailedStats(u).stats,
                            periods |-> getDetailedStats(u).periods])
             ELSE Response("stats", "dashboard", u, 0, 500,
                           ErrorBody("Failed to fetch dashboard statistics"))
  /\ UNCHANGED <<storeVars, env, call>>

\* User 1 has tracked goals, moods and meditation runs for a while.
InitDetailed ==
  /\ \E counts \in GoalCountsInputs : goals = DetailedGoals(counts) /\ goalSeq = Total(counts)
  /\ \E counts \in MoodCountsInputs : moods = DetailedMoods(counts)
  /\ \E counts \in MoodCountsInputs : runs = DetailedRuns(counts)
  /\ journal = EmptyTable
  /\ sessions = EmptyTable
  /\ users = Accounts
  /\ reg = NoRegistrations
  /\ pending = NoPending
  /\ client = LoggedOut
  /\ page = ClosedPage
  /\ resp = Response("none", "none", 0, 0, 0, NoBody)
  /\ env = [mock |-> FALSE, client |-> FALSE]
  /\ call = NoCall

NextDetailed == \E u \in Users : DetailedStats(u)

SpecDetailed == InitDetailed /\ [][NextDetailed]_vars

MoodSum(stats) == SumSeq([k \in 1..5 |-> stats.moodCounts[k]])

AtMost(inner, outer) ==
  /\ inner.totalGoals <= outer.totalGoals
  /\ inner.totalMedSessions <= outer.totalMedSessions
  /\ MoodSum(inner) <= MoodSum(outer)

\* C30: in one response of getDetailedStats the goals, the meditation
\* sessions and the moods counted for the last 7 days are at most those of
\* the last 30 days, which are at most those of all time.
C30_PeriodsNested ==
  (resp.op = "stats" /\ resp.status = 200) =>
     /\ AtMost(resp.body.periods.last7Days, resp.body.periods.last30Days)
     /\ AtMost(resp.body.periods.last30Days, resp.body.periods.allTime)

====
